---- MODULE Spec2Model ----
(***************************************************************************)
(* The calculator of frontend/src/components/Calculator.tsx: the CalcState *)
(* state machine, the expression evaluator and the result formatters, the  *)
(* mutation hooks of frontend/src/hooks/useQueries.ts that equals calls.   *)
(*                                                                         *)
(* Text is a sequence of one-character strings.  The characters outside    *)
(* ASCII are written as the named atoms below.  A JavaScript number is     *)
(* an exact fraction n/d (kind "fin"), an infinity, NaN, or "unk": a       *)
(* finite value outside the fractions the model carries (MaxRat).  The     *)
(* text of an "unk" value is UnmodelledStr, and a step that would show it  *)
(* is not taken.                                                           *)
(*                                                                         *)
(* A value computed once and read several times is passed as a parameter   *)
(* of the operator that reads it.                                          *)
(***************************************************************************)
EXTENDS Integers, Sequences, FiniteSets, TLC

(* ------------------------------ bounds --------------------------------- *)
\* the digits the user types
Digits == {"0", "1", "3"}
\* key presses of a session that uses every key
MaxKeys == 5
\* key presses of a session that uses the number and operator keys alone
MaxArithmeticKeys == 6
\* largest numerator and denominator of a modelled fraction
MaxRat == 30000
\* characters of an expression handed to the evaluator
MaxExprLen == 5
\* largest operand of an arithmetic expression handed to the evaluator
MaxOperand == 4
\* keys typed on a display that was entered before
MaxEntryKeys == 2
\* largest dividend and divisor handed to the division formatter
MaxDividend == 100
MaxDivisor == 12
\* characters of a text handed to the tokenizer
MaxTextLen == 4

\* the calls a session makes on the actor, the passing of time included
MaxServiceCalls == 3

\* the keys pressed on a display that shows Infinity
MaxOverflowKeys == 5

\* the writes of the timestamp cache in a session, the passing of time included
MaxCacheSteps == 5

(* ---------------------------- characters ------------------------------- *)
\* "<minus>" is U+2212 (the subtraction symbol of the trail), "<times>" is
\* U+00D7 and "<sq>" is U+00B2
DivSign   == "<div>"      \* U+00F7
SqrtSign  == "<sqrt>"     \* U+221A

DigitChars == {"0", "1", "2", "3", "4", "5", "6", "7", "8", "9"}

DigitVal(c) ==
    CASE c = "0" -> 0 [] c = "1" -> 1 [] c = "2" -> 2 [] c = "3" -> 3
      [] c = "4" -> 4 [] c = "5" -> 5 [] c = "6" -> 6 [] c = "7" -> 7
      [] c = "8" -> 8 [] c = "9" -> 9

DigitChar(i) == <<"0", "1", "2", "3", "4", "5", "6", "7", "8", "9">>[i + 1]

ErrorStr    == <<"E", "r", "r", "o", "r">>
InfinityStr == <<"I", "n", "f", "i", "n", "i", "t", "y">>
\* the text of a value outside the model
UnmodelledStr == <<"unmodelled">>

Abs(i) == IF i < 0 THEN -i ELSE i

\* String.prototype.slice(0, -1)
DropLast(s) == IF Len(s) = 0 THEN s ELSE SubSeq(s, 1, Len(s) - 1)

\* String.prototype.includes for one character
Includes(s, c) == \E i \in 1..Len(s) : s[i] = c

\* BigInt.prototype.toString
RECURSIVE NatToStr(_)
NatToStr(i) == IF i < 10 THEN <<DigitChar(i)>>
               ELSE Append(NatToStr(i \div 10), DigitChar(i % 10))

IntToStr(i) == IF i < 0 THEN <<"-">> \o NatToStr(-i) ELSE NatToStr(i)

(* ------------------------------ numbers -------------------------------- *)
NaN    == [k |-> "nan", n |-> 0, d |-> 1]
Inf(s) == [k |-> "inf", n |-> s, d |-> 1]
Unk    == [k |-> "unk", n |-> 0, d |-> 1]
Zero   == [k |-> "fin", n |-> 0, d |-> 1]
One    == [k |-> "fin", n |-> 1, d |-> 1]

RECURSIVE Gcd(_, _)
Gcd(a, b) == IF b = 0 THEN a ELSE Gcd(b, a % b)

\* n/d divided through by g, or Unk outside the model
Reduced(n, d, g) ==
    IF Abs(n \div g) > MaxRat \/ d \div g > MaxRat THEN Unk
    ELSE [k |-> "fin", n |-> n \div g, d |-> d \div g]

\* the fraction n/d (d > 0) in lowest terms
Rat(n, d) == Reduced(n, d, Gcd(Abs(n), d))

IsFin(v) == v.k = "fin"
IsNaN(v) == v.k = "nan"
IsZero(v) == v.k = "fin" /\ v.n = 0
\* v < 0
IsNeg(v) == (v.k = "fin" /\ v.n < 0) \/ (v.k = "inf" /\ v.n < 0)
Sign(v) == IF v.n < 0 THEN -1 ELSE 1

Neg(v) == CASE v.k = "fin" -> [v EXCEPT !.n = -v.n]
            [] v.k = "inf" -> Inf(-v.n)
            [] OTHER -> v

Add(a, b) ==
    CASE a.k = "nan" \/ b.k = "nan" -> NaN
      [] a.k = "unk" \/ b.k = "unk" -> Unk
      [] a.k = "inf" /\ b.k = "inf" -> IF a.n = b.n THEN a ELSE NaN
      [] a.k = "inf" -> a
      [] b.k = "inf" -> b
      [] OTHER -> Rat(a.n * b.d + b.n * a.d, a.d * b.d)

Mul(a, b) ==
    CASE a.k = "nan" \/ b.k = "nan" -> NaN
      [] a.k = "unk" \/ b.k = "unk" -> Unk
      [] a.k = "inf" \/ b.k = "inf" ->
            IF IsZero(a) \/ IsZero(b) THEN NaN ELSE Inf(Sign(a) * Sign(b))
      [] OTHER -> Rat(a.n * b.n, a.d * b.d)

\* IEEE division: x/0 is an infinity (0/0 is NaN)
Div(a, b) ==
    CASE a.k = "nan" \/ b.k = "nan" -> NaN
      [] a.k = "unk" \/ b.k = "unk" -> Unk
      [] a.k = "inf" /\ b.k = "inf" -> NaN
      [] a.k = "inf" -> Inf(Sign(a) * Sign(b))
      [] b.k = "inf" -> Zero
      [] IsZero(b) -> IF IsZero(a) THEN NaN ELSE Inf(Sign(a))
      [] OTHER -> Rat(a.n * b.d * Sign(b), a.d * Abs(b.n))

\* Math.trunc followed by BigInt(): defined on the finite values only
Trunc(v) == IF v.n < 0 THEN -((-v.n) \div v.d) ELSE v.n \div v.d

(* ------------------------- text to number ------------------------------ *)
\* the index of the last character of the run of digits that starts at i
\* (i - 1 when s[i] is no digit)
RECURSIVE DigitRunEnd(_, _)
DigitRunEnd(s, i) ==
    IF i <= Len(s) /\ s[i] \in DigitChars THEN DigitRunEnd(s, i + 1) ELSE i - 1

RECURSIVE SkipSpaces(_, _)
SkipSpaces(s, i) == IF i <= Len(s) /\ s[i] = " " THEN SkipSpaces(s, i + 1) ELSE i

RECURSIVE StripLeadingZeros(_)
StripLeadingZeros(s) ==
    IF Len(s) > 0 /\ s[1] = "0" THEN StripLeadingZeros(Tail(s)) ELSE s

RECURSIVE StripTrailingZeros(_)
StripTrailingZeros(s) ==
    IF Len(s) > 0 /\ s[Len(s)] = "0" THEN StripTrailingZeros(DropLast(s)) ELSE s

\* v, or -1 when it is above MaxRat
Capped(v) == IF v > MaxRat THEN -1 ELSE v

\* the value of a digit string, -1 when it is above MaxRat
RECURSIVE DigitsToNat(_, _)
DigitsToNat(s, acc) ==
    IF acc = -1 THEN -1
    ELSE IF Len(s) = 0 THEN acc
    ELSE DigitsToNat(Tail(s), Capped(acc * 10 + DigitVal(s[1])))

\* 10^k, -1 when it is above MaxRat
RECURSIVE Pow10(_)
Pow10(k) == IF k = 0 THEN 1
            ELSE IF Pow10(k - 1) = -1 THEN -1
            ELSE Capped(Pow10(k - 1) * 10)

\* sign * m / p as a number of the model
Scaled(sign, m, p) == IF m = -1 \/ p = -1 THEN Unk ELSE Rat(sign * m, p)

\* the value of the decimal literal with these integer and fraction digits
Decimal(sign, intDigits, fracDigits) ==
    Scaled(sign, DigitsToNat(StripLeadingZeros(intDigits \o fracDigits), 0),
           IF Len(fracDigits) > 9 THEN -1 ELSE Pow10(Len(fracDigits)))

\* an exponent part starts at e0
HasExponent(s, e0) ==
    /\ e0 + 1 <= Len(s)
    /\ s[e0] \in {"e", "E"}
    /\ \/ s[e0 + 1] \in DigitChars
       \/ s[e0 + 1] \in {"+", "-"} /\ e0 + 2 <= Len(s) /\ s[e0 + 2] \in DigitChars

\* the literal whose integer digits are s[i1..a] and whose fraction, if any,
\* ends at b; a literal with an exponent part is outside the model
Fraction(s, sign, i1, a) ==
    LET b == IF a + 1 <= Len(s) /\ s[a + 1] = "." THEN DigitRunEnd(s, a + 2) ELSE a
    IN IF a < i1 /\ b < a + 2 THEN NaN
       ELSE IF HasExponent(s, b + 1) THEN Unk
       ELSE Decimal(sign, SubSeq(s, i1, a), StripTrailingZeros(SubSeq(s, a + 2, b)))

\* the literal after its sign
Literal(s, sign, i1) ==
    IF Len(s) >= i1 + 7 /\ SubSeq(s, i1, i1 + 7) = InfinityStr THEN Inf(sign)
    ELSE Fraction(s, sign, i1, DigitRunEnd(s, i1))

\* parseFloat: the value of the longest prefix that is a decimal literal
parseFloat(s) ==
    LET i0 == SkipSpaces(s, 1)
        signed == i0 <= Len(s) /\ s[i0] \in {"+", "-"}
    IN Literal(s, IF signed /\ s[i0] = "-" THEN -1 ELSE 1,
               IF signed THEN i0 + 1 ELSE i0)

\* Number(tok) is not NaN, for a token made of digits and dots
IsNumberToken(tok) ==
    /\ \E i \in 1..Len(tok) : tok[i] \in DigitChars
    /\ \A i \in 1..Len(tok) : tok[i] \in DigitChars \cup {"."}
    /\ Cardinality({i \in 1..Len(tok) : tok[i] = "."}) <= 1

(* ------------------------- number to text ------------------------------ *)
\* ds followed by the next k digits of r/d (0 <= r < d), and the remainder
\* left after them
RECURSIVE LongDiv(_, _, _, _)
LongDiv(r, d, k, ds) ==
    IF k = 0 THEN [ds |-> ds, r |-> r]
    ELSE LongDiv((r * 10) % d, d, k - 1, Append(ds, DigitChar((r * 10) \div d)))

\* a digit string plus one in its last place; carry when it was all nines
RECURSIVE IncDigits(_)
IncDigits(ds) ==
    IF Len(ds) = 0 THEN [ds |-> <<>>, carry |-> TRUE]
    ELSE IF ds[Len(ds)] # "9"
         THEN [ds |-> Append(DropLast(ds), DigitChar(DigitVal(ds[Len(ds)]) + 1)),
               carry |-> FALSE]
         ELSE LET up == IncDigits(DropLast(ds))
              IN [ds |-> Append(up.ds, "0"), carry |-> up.carry]

RECURSIVE Zeros(_)
Zeros(k) == IF k <= 0 THEN <<>> ELSE <<"0">> \o Zeros(k - 1)

\* the text of the integer part ip and the ten digits q.ds, rounded up when
\* the remainder q.r is half of d or more (inc is q.ds plus one)
FixedRounded(neg, ip, d, q, inc) ==
    (IF neg THEN <<"-">> ELSE <<>>)
    \o NatToStr(IF 2 * q.r >= d /\ inc.carry THEN ip + 1 ELSE ip)
    \o <<".">>
    \o (IF 2 * q.r >= d THEN inc.ds ELSE q.ds)

\* Number.prototype.toFixed(10) of a finite value
toFixed10(v) ==
    FixedRounded(v.n < 0, Abs(v.n) \div v.d, v.d,
                 LongDiv(Abs(v.n) % v.d, v.d, 10, <<>>),
                 IncDigits(LongDiv(Abs(v.n) % v.d, v.d, 10, <<>>).ds))

\* replace(/\.$/, '')
StripFinalDot(s) == IF Len(s) > 0 /\ s[Len(s)] = "." THEN DropLast(s) ELSE s

\* a formatDivisionResult that strips nothing
formatDivisionResultPadded(v) ==
    IF v.k = "unk" THEN UnmodelledStr
    ELSE IF ~IsFin(v) THEN ErrorStr
    ELSE toFixed10(v)

\* toFixed(10) puts ten digits after a '.', so replace(/(\.\d*?)0+$/, '$1')
\* strips the zeros that end the text
formatDivisionResult(v) ==
    IF v.k = "unk" THEN UnmodelledStr
    ELSE IF ~IsFin(v) THEN ErrorStr
    ELSE StripFinalDot(StripTrailingZeros(toFixed10(v)))

\* a (> 0) over d scaled by powers of ten into [1, 10): the scaled pair and
\* the decimal exponent e with 10^e <= a/d < 10^(e+1)
RECURSIVE Scale10(_, _, _)
Scale10(a, d, e) ==
    IF a >= 10 * d THEN Scale10(a, d * 10, e + 1)
    ELSE IF a < d THEN Scale10(a * 10, d, e - 1)
    ELSE [a |-> a, d |-> d, e |-> e]

\* Number::toString of the value with the significant digits ds (no trailing
\* zero) and decimal exponent n (value = 0.ds * 10^n); the exponential
\* notation is outside the model
NumberToString(neg, ds, n) ==
    IF Len(ds) <= n /\ n <= 21
    THEN (IF neg THEN <<"-">> ELSE <<>>) \o ds \o Zeros(n - Len(ds))
    ELSE IF 0 < n /\ n <= 21
    THEN (IF neg THEN <<"-">> ELSE <<>>)
         \o SubSeq(ds, 1, n) \o <<".">> \o SubSeq(ds, n + 1, Len(ds))
    ELSE IF -6 < n /\ n <= 0
    THEN (IF neg THEN <<"-">> ELSE <<>>) \o <<"0", ".">> \o Zeros(-n) \o ds
    ELSE UnmodelledStr

\* the twelve digits q.ds of a value of decimal exponent e, rounded up when
\* the remainder q.r is half of d or more (inc is q.ds plus one)
PrecisionRounded(neg, d, e, q, inc) ==
    IF 2 * q.r < d THEN NumberToString(neg, StripTrailingZeros(q.ds), e + 1)
    ELSE IF inc.carry THEN NumberToString(neg, <<"1">>, e + 2)
    ELSE NumberToString(neg, StripTrailingZeros(inc.ds), e + 1)

\* toPrecision(12) of the scaled value sc, read back and printed
toPrecision12(neg, sc) ==
    PrecisionRounded(neg, sc.d, sc.e,
        LongDiv(sc.a % sc.d, sc.d, 11, <<DigitChar(sc.a \div sc.d)>>),
        IncDigits(LongDiv(sc.a % sc.d, sc.d, 11, <<DigitChar(sc.a \div sc.d)>>).ds))

\* parseFloat(value.toPrecision(12)).toString()
roundedToString(v) ==
    CASE v.k = "unk" -> UnmodelledStr
      [] v.k = "nan" -> <<"N", "a", "N">>
      [] v.k = "inf" -> (IF v.n < 0 THEN <<"-">> ELSE <<>>) \o InfinityStr
      [] IsZero(v) -> <<"0">>
      [] OTHER -> toPrecision12(v.n < 0, Scale10(Abs(v.n), v.d, 0))

(* ------------------------------ tokenizer ------------------------------ *)
OperatorChars == {"(", ")", "^", "%", "*", "/", "+", "-"}

\* the index of the last character of the run of digits and dots from i
RECURSIVE NumberRunEnd(_, _)
NumberRunEnd(expr, i) ==
    IF i <= Len(expr) /\ expr[i] \in DigitChars \cup {"."}
    THEN NumberRunEnd(expr, i + 1) ELSE i - 1

RECURSIVE tokenizeFrom(_, _, _)

\* a tokenize that pushes the characters it does not know
tokenizeFromKeeping(expr, i, tokens) ==
    IF i > Len(expr) THEN tokens
    ELSE IF expr[i] = " " THEN tokenizeFrom(expr, i + 1, tokens)
    ELSE IF expr[i] \in DigitChars \cup {"."}
         THEN LET j == NumberRunEnd(expr, i)
              IN tokenizeFrom(expr, j + 1, Append(tokens, SubSeq(expr, i, j)))
    ELSE tokenizeFrom(expr, i + 1, Append(tokens, <<expr[i]>>))

\* the loop of tokenize from index i, with the tokens pushed so far
tokenizeFrom(expr, i, tokens) ==
    IF i > Len(expr) THEN tokens
    ELSE IF expr[i] = " " THEN tokenizeFrom(expr, i + 1, tokens)
    ELSE IF expr[i] = SqrtSign \/ expr[i] \in OperatorChars
         THEN tokenizeFrom(expr, i + 1, Append(tokens, <<expr[i]>>))
    ELSE IF expr[i] \in DigitChars \cup {"."}
         THEN LET j == NumberRunEnd(expr, i)
              IN tokenizeFrom(expr, j + 1, Append(tokens, SubSeq(expr, i, j)))
    ELSE tokenizeFrom(expr, i + 1, tokens)

tokenize(expr) == tokenizeFrom(expr, 1, <<>>)

(* ------------------------------ evaluator ------------------------------ *)
\* the least r of lo..hi with r * r >= n, by bisection
RECURSIVE CeilRoot(_, _, _)
CeilRoot(n, lo, hi) ==
    IF lo >= hi THEN lo
    ELSE IF ((lo + hi) \div 2) * ((lo + hi) \div 2) >= n
         THEN CeilRoot(n, lo, (lo + hi) \div 2)
    ELSE CeilRoot(n, (lo + hi) \div 2 + 1, hi)

\* the integer square root of a perfect square, -1 otherwise
ExactRoot(n) == LET r == CeilRoot(n, 0, n) IN IF r * r = n THEN r ELSE -1

\* Math.sqrt of a value that is not negative: the root of a fraction of
\* squares, and a value outside the model otherwise
Sqrt(v) ==
    IF v.k # "fin" THEN v
    ELSE IF ExactRoot(v.n) = -1 \/ ExactRoot(v.d) = -1 THEN Unk
    ELSE Rat(ExactRoot(v.n), ExactRoot(v.d))

\* b^e for a natural e, by squaring
RECURSIVE PowNat(_, _)
PowNat(b, e) ==
    IF e = 0 THEN One
    ELSE IF b.k = "unk" THEN Unk
    ELSE LET h == PowNat(b, e \div 2)
         IN IF e % 2 = 0 THEN Mul(h, h) ELSE Mul(Mul(h, h), b)

\* Math.pow
Pow(base, exp) ==
    CASE IsZero(exp) -> One
      [] base.k = "nan" \/ exp.k = "nan" -> NaN
      [] base.k = "unk" \/ exp.k \in {"unk", "inf"} -> Unk
      [] base.k = "inf" ->
            IF IsNeg(exp) THEN Zero
            ELSE IF IsNeg(base) /\ exp.d = 1 /\ exp.n % 2 = 1 THEN Inf(-1) ELSE Inf(1)
      [] exp.d # 1 ->
            IF IsNeg(base) THEN NaN
            ELSE IF IsZero(base) THEN (IF IsNeg(exp) THEN Inf(1) ELSE Zero)
            ELSE IF base = One THEN base
            ELSE Unk
      [] IsZero(base) -> IF exp.n < 0 THEN Inf(1) ELSE Zero
      [] Abs(base.n) = base.d -> IF base.n < 0 /\ exp.n % 2 = 1 THEN base ELSE One
      [] Abs(base.n) >= 2 * base.d /\ exp.n >= 1024 ->
            IF base.n < 0 /\ exp.n % 2 = 1 THEN Inf(-1) ELSE Inf(1)
      [] exp.n > 0 -> PowNat(base, exp.n)
      [] OTHER -> Div(One, PowNat(base, -exp.n))

\* the outcome of a parse function: the value, the cursor after it, the
\* involvesDivision flag, and the message of the Error thrown ("" when none;
\* "unmodelled" when the value leaves the fractions of the model)
Ok(v, pos, div) ==
    [v |-> v, pos |-> pos, div |-> div, err |-> IF v.k = "unk" THEN "unmodelled" ELSE ""]
Throw(msg, pos, div) == [v |-> NaN, pos |-> pos, div |-> div, err |-> msg]

peek(tokens, pos) == IF pos <= Len(tokens) THEN tokens[pos] ELSE <<>>

RECURSIVE parseExpr(_, _, _)
RECURSIVE parseExprLoop(_, _)
RECURSIVE parseTerm(_, _, _)
RECURSIVE parseTermLoop(_, _)
RECURSIVE parsePower(_, _, _)
RECURSIVE parseUnary(_, _, _)
RECURSIVE parsePrimary(_, _, _)

\* a group's ')' is consumed when it is the next token, and not asked for
parsePrimary(tokens, pos, div) ==
    IF pos > Len(tokens) THEN Throw("Unexpected end", pos, div)
    ELSE IF tokens[pos] = <<"(">>
         THEN LET val == parseExpr(tokens, pos + 1, div)
              IN IF val.err # "" THEN val
                 ELSE IF peek(tokens, val.pos) = <<")">>
                      THEN [val EXCEPT !.pos = val.pos + 1]
                 ELSE val
    ELSE IF IsNumberToken(tokens[pos]) THEN Ok(parseFloat(tokens[pos]), pos + 1, div)
    ELSE Throw("Unexpected token", pos, div)

parseUnary(tokens, pos, div) ==
    IF peek(tokens, pos) \in {<<SqrtSign>>, <<"-">>}
    THEN LET val == parseUnary(tokens, pos + 1, div)
         IN IF val.err # "" THEN val
            ELSE IF peek(tokens, pos) = <<"-">> THEN Ok(Neg(val.v), val.pos, val.div)
            ELSE IF IsNeg(val.v) THEN Throw("Sqrt of negative", val.pos, val.div)
            ELSE Ok(Sqrt(val.v), val.pos, val.div)
    ELSE parsePrimary(tokens, pos, div)

\* parsePower after the parseUnary of the exponent
Raised(base, exp) ==
    IF exp.err # "" THEN exp ELSE Ok(Pow(base.v, exp.v), exp.pos, exp.div)

\* parsePower after the parseUnary of the base: one '^' at most
BaseParsed(tokens, base) ==
    IF base.err # "" THEN base
    ELSE IF peek(tokens, base.pos) = <<"^">>
         THEN Raised(base, parseUnary(tokens, base.pos + 1, base.div))
    ELSE base

parsePower(tokens, pos, div) == BaseParsed(tokens, parseUnary(tokens, pos, div))

\* if (peek() === '%') { consume(); v = v / 100; }
PercentTaken(tokens, p) ==
    IF p.err # "" THEN p
    ELSE IF peek(tokens, p.pos) = <<"%">> THEN Ok(Div(p.v, Rat(100, 1)), p.pos + 1, p.div)
    ELSE p

\* parsePower() and the percent sign after it
PowerPercent(tokens, pos, div) == PercentTaken(tokens, parsePower(tokens, pos, div))

\* the loop of parseTerm goes on with left, unless left is a thrown Error
TermLeft(tokens, left) == IF left.err # "" THEN left ELSE parseTermLoop(tokens, left)

\* a parseTerm that does not set involvesDivision
TermStepUnflagged(tokens, left, op, right) ==
    IF right.err # "" THEN right
    ELSE IF op = <<"*">> THEN TermLeft(tokens, Ok(Mul(left.v, right.v), right.pos, right.div))
    ELSE IF IsZero(right.v) THEN Throw("Division by zero", right.pos, right.div)
    ELSE TermLeft(tokens, Ok(Div(left.v, right.v), right.pos, right.div))

\* the body of the loop of parseTerm once right is parsed
TermStep(tokens, left, op, right) ==
    IF right.err # "" THEN right
    ELSE IF op = <<"*">> THEN TermLeft(tokens, Ok(Mul(left.v, right.v), right.pos, right.div))
    ELSE IF IsZero(right.v) THEN Throw("Division by zero", right.pos, right.div)
    ELSE TermLeft(tokens, Ok(Div(left.v, right.v), right.pos, TRUE))

parseTermLoop(tokens, left) ==
    IF peek(tokens, left.pos) \notin {<<"*">>, <<"/">>} THEN left
    ELSE TermStep(tokens, left, peek(tokens, left.pos),
                  PowerPercent(tokens, left.pos + 1, left.div))

parseTerm(tokens, pos, div) == TermLeft(tokens, PowerPercent(tokens, pos, div))

\* the loop of parseExpr goes on with left, unless left is a thrown Error
ExprLeft(tokens, left) == IF left.err # "" THEN left ELSE parseExprLoop(tokens, left)

\* the body of the loop of parseExpr once right is parsed
ExprStep(tokens, left, op, right) ==
    IF right.err # "" THEN right
    ELSE ExprLeft(tokens, Ok(IF op = <<"+">> THEN Add(left.v, right.v)
                                             ELSE Add(left.v, Neg(right.v)),
                             right.pos, right.div))

\* a parseExpr whose right operand is a power, not a term
parseExprLoopFlat(tokens, left) ==
    IF peek(tokens, left.pos) \notin {<<"+">>, <<"-">>} THEN left
    ELSE ExprStep(tokens, left, peek(tokens, left.pos),
                  PowerPercent(tokens, left.pos + 1, left.div))

parseExprLoop(tokens, left) ==
    IF peek(tokens, left.pos) \notin {<<"+">>, <<"-">>} THEN left
    ELSE ExprStep(tokens, left, peek(tokens, left.pos),
                  parseTerm(tokens, left.pos + 1, left.div))

parseExpr(tokens, pos, div) == ExprLeft(tokens, parseTerm(tokens, pos, div))

\* { value, involvesDivision }, or the Error thrown
evaluateExpression(expr) == parseExpr(tokenize(expr), 1, FALSE)

\* string | null: [k |-> "null"], [k |-> "str", s |-> the text]
Null == [k |-> "null", s |-> <<>>]
Str(s) == [k |-> "str", s |-> s]

\* a safeEvaluate that returns null for a value that is not finite
EvaluatedFiniteOnly(r) ==
    IF r.err = "unmodelled" THEN Str(UnmodelledStr)
    ELSE IF r.err # "" THEN Null
    ELSE IF ~IsFin(r.v) THEN Null
    ELSE IF r.div THEN Str(formatDivisionResult(r.v))
    ELSE Str(roundedToString(r.v))

\* safeEvaluate on the outcome r of evaluateExpression
Evaluated(r) ==
    IF r.err = "unmodelled" THEN Str(UnmodelledStr)
    ELSE IF r.err # "" THEN Null
    ELSE IF ~IsFin(r.v) THEN Str(ErrorStr)
    ELSE IF r.div THEN Str(formatDivisionResult(r.v))
    ELSE Str(roundedToString(r.v))

safeEvaluate(expr) == Evaluated(evaluateExpression(expr))

(* --------------------------- calculator state -------------------------- *)
VARIABLES
    state,          \* the CalcState held by useState
    isCalculating,  \* the isCalculating flag held by useState
    inflight,       \* the mutateAsync calls awaited by handleEquals, oldest first
    budget,         \* key presses left in the session
    last,           \* the handler that ran last
    arg,            \* the expression safeEvaluate is called with on its own:
                    \* its text and, for an arithmetic expression, its parts
    ret,            \* what that call made of it, once it is done
    calculationHistory, \* the stable calculationHistory of the actor
    now,            \* Time.now() of the actor and Date.now() of the client, in days
    localTimestamps \* the cache under LOCAL_HISTORY_KEY in localStorage

vars == <<state, isCalculating, inflight, budget, last, arg, ret, calculationHistory, now,
          localTimestamps>>

NoOperator == "null"
Operators == {"+", "-", "*", "/"}

initialState == [
    display |-> <<"0">>,
    expression |-> <<>>,
    operator |-> NoOperator,
    operand1 |-> <<>>,
    waitingForOperand2 |-> FALSE,
    justCalculated |-> FALSE,
    isError |-> FALSE,
    expressionMode |-> FALSE,
    fullExpression |-> <<>>]

opSymbol(op) ==
    CASE op = "+" -> "+" [] op = "-" -> "<minus>" [] op = "*" -> "<times>"
      [] OTHER -> DivSign

\* String.prototype.replace(c, ''): the text without its first c
RECURSIVE RemoveFirst(_, _)
RemoveFirst(s, c) ==
    IF Len(s) = 0 THEN s
    ELSE IF s[1] = c THEN Tail(s)
    ELSE <<s[1]>> \o RemoveFirst(Tail(s), c)

\* the cap of handleDigit on the display without its minus sign
MaxDisplayDigits == 15

\* handleDigit without its reset in the Error state
handleDigitKeepingError(prev, digit) ==
    IF prev.justCalculated THEN [initialState EXCEPT !.display = <<digit>>]
    ELSE IF prev.expressionMode
         THEN [prev EXCEPT !.fullExpression = Append(prev.fullExpression, digit),
                           !.display = <<digit>>]
    ELSE IF prev.waitingForOperand2
         THEN [prev EXCEPT !.display = <<digit>>, !.waitingForOperand2 = FALSE]
    ELSE [prev EXCEPT !.display = IF prev.display = <<"0">> THEN <<digit>>
                                  ELSE Append(prev.display, digit)]

\* the updater of handleDigit
handleDigit(prev, digit) ==
    IF prev.isError THEN [initialState EXCEPT !.display = <<digit>>]
    ELSE IF prev.justCalculated THEN [initialState EXCEPT !.display = <<digit>>]
    ELSE IF prev.expressionMode
         THEN [prev EXCEPT !.fullExpression = Append(prev.fullExpression, digit),
                           !.display = <<digit>>]
    ELSE IF prev.waitingForOperand2
         THEN [prev EXCEPT !.display = <<digit>>, !.waitingForOperand2 = FALSE]
    ELSE LET newDisplay == IF prev.display = <<"0">> THEN <<digit>>
                           ELSE Append(prev.display, digit)
         IN IF Len(RemoveFirst(newDisplay, "-")) > MaxDisplayDigits THEN prev
            ELSE [prev EXCEPT !.display = newDisplay]

\* match(/[\d.]+$/): the run of digits and dots that ends the text
RECURSIVE TrailingNumber(_)
TrailingNumber(s) ==
    IF Len(s) > 0 /\ s[Len(s)] \in DigitChars \cup {"."}
    THEN Append(TrailingNumber(DropLast(s)), s[Len(s)]) ELSE <<>>

\* the updater of handleDecimal
handleDecimal(prev) ==
    IF prev.isError THEN initialState
    ELSE IF prev.justCalculated THEN [initialState EXCEPT !.display = <<"0", ".">>]
    ELSE IF prev.expressionMode
         THEN IF Includes(TrailingNumber(prev.fullExpression), ".") THEN prev
              ELSE [prev EXCEPT !.fullExpression = Append(prev.fullExpression, "."),
                                !.display = Append(prev.display, ".")]
    ELSE IF prev.waitingForOperand2
         THEN [prev EXCEPT !.display = <<"0", ".">>, !.waitingForOperand2 = FALSE]
    ELSE IF Includes(prev.display, ".") THEN prev
    ELSE [prev EXCEPT !.display = Append(prev.display, ".")]

\* handleOperator without its reset of justCalculated
handleOperatorKeepingResult(prev, op) ==
    IF prev.isError THEN initialState
    ELSE [prev EXCEPT !.operator = op,
                      !.operand1 = prev.display,
                      !.expression = prev.display \o <<" ", opSymbol(op)>>,
                      !.waitingForOperand2 = TRUE]

\* a handleOperator that keeps operand1 while an operand is awaited
handleOperatorKeepingOperand(prev, op) ==
    IF prev.isError THEN initialState
    ELSE [prev EXCEPT !.operator = op,
                      !.operand1 = IF prev.waitingForOperand2 THEN prev.operand1 ELSE prev.display,
                      !.expression = (IF prev.waitingForOperand2 THEN prev.operand1 ELSE prev.display)
                                     \o <<" ", opSymbol(op)>>,
                      !.waitingForOperand2 = TRUE,
                      !.justCalculated = FALSE]

\* a handleOperator that keeps the first operand of a pending operation
handleOperatorKeepingFirst(prev, op) ==
    IF prev.isError THEN initialState
    ELSE [prev EXCEPT !.operator = op,
                      !.operand1 = IF prev.operator # NoOperator /\ ~prev.waitingForOperand2
                                   THEN prev.operand1 ELSE prev.display,
                      !.expression = prev.display \o <<" ", opSymbol(op)>>,
                      !.waitingForOperand2 = TRUE,
                      !.justCalculated = FALSE]

\* the updater of handleOperator
handleOperator(prev, op) ==
    IF prev.isError THEN initialState
    ELSE [prev EXCEPT !.operator = op,
                      !.operand1 = prev.display,
                      !.expression = prev.display \o <<" ", opSymbol(op)>>,
                      !.waitingForOperand2 = TRUE,
                      !.justCalculated = FALSE]

\* {...initialState, display, expression, justCalculated: true}
Calculated(display, expression) ==
    [initialState EXCEPT !.display = display, !.expression = expression,
                         !.justCalculated = TRUE]

\* {...prev, display: 'Error', expression, isError: true}
Failed(prev, expression) ==
    [prev EXCEPT !.display = ErrorStr, !.expression = expression, !.isError = TRUE]

\* the updater of handleSquare once val is parsed
Squared(prev, val) ==
    IF prev.isError THEN prev
    ELSE IF IsNaN(val) THEN prev
    ELSE Calculated(roundedToString(Mul(val, val)),
                    <<"(">> \o prev.display \o <<")", "<sq>">>)

handleSquare(prev) == Squared(prev, parseFloat(prev.display))

\* the updater of handleSqrt once val is parsed
Rooted(prev, val) ==
    IF prev.isError THEN prev
    ELSE IF IsNaN(val) THEN prev
    ELSE IF IsNeg(val) THEN Failed(prev, <<SqrtSign, "(">> \o prev.display \o <<")">>)
    ELSE Calculated(roundedToString(Sqrt(val)),
                    <<SqrtSign, "(">> \o prev.display \o <<")">>)

handleSqrt(prev) == Rooted(prev, parseFloat(prev.display))

\* the updater of handleReciprocal once val is parsed
Inverted(prev, val) ==
    IF prev.isError THEN prev
    ELSE IF IsNaN(val) THEN prev
    ELSE IF IsZero(val) THEN Failed(prev, <<"1", "/", "(">> \o prev.display \o <<")">>)
    ELSE Calculated(roundedToString(Div(One, val)),
                    <<"1", "/", "(">> \o prev.display \o <<")">>)

handleReciprocal(prev) == Inverted(prev, parseFloat(prev.display))

\* the updater of handlePower
handlePower(prev) ==
    IF prev.isError THEN prev
    ELSE [initialState EXCEPT !.expressionMode = TRUE,
                              !.fullExpression = Append(prev.display, "^"),
                              !.display = prev.display,
                              !.expression = Append(prev.display, "^")]

\* a handleOpenParen without its branch for a shown result
handleOpenParenKeepingResult(prev) ==
    IF prev.isError THEN prev
    ELSE IF prev.expressionMode
         THEN [prev EXCEPT !.fullExpression = Append(prev.fullExpression, "("),
                           !.expression = Append(prev.fullExpression, "(")]
    ELSE IF prev.display # <<"0">>
         THEN [prev EXCEPT !.expressionMode = TRUE,
                           !.fullExpression = prev.display \o <<"*", "(">>,
                           !.expression = prev.display \o <<"*", "(">>]
    ELSE [prev EXCEPT !.expressionMode = TRUE, !.fullExpression = <<"(">>,
                      !.expression = <<"(">>]

\* the updater of handleOpenParen
handleOpenParen(prev) ==
    IF prev.isError THEN prev
    ELSE IF prev.justCalculated
         THEN [initialState EXCEPT !.expressionMode = TRUE,
                                   !.fullExpression = <<"(">>,
                                   !.display = <<"0">>,
                                   !.expression = <<"(">>]
    ELSE IF prev.expressionMode
         THEN [prev EXCEPT !.fullExpression = Append(prev.fullExpression, "("),
                           !.expression = Append(prev.fullExpression, "(")]
    ELSE IF prev.display # <<"0">>
         THEN [prev EXCEPT !.expressionMode = TRUE,
                           !.fullExpression = prev.display \o <<"*", "(">>,
                           !.expression = prev.display \o <<"*", "(">>]
    ELSE [prev EXCEPT !.expressionMode = TRUE, !.fullExpression = <<"(">>,
                      !.expression = <<"(">>]

\* the updater of handleCloseParen
handleCloseParen(prev) ==
    IF ~prev.expressionMode THEN prev
    ELSE [prev EXCEPT !.fullExpression = Append(prev.fullExpression, ")"),
                      !.expression = Append(prev.fullExpression, ")")]

\* the updater of handlePercent, outside expression mode, once val is parsed
PercentOf(prev, val) ==
    IF IsNaN(val) THEN prev
    ELSE [prev EXCEPT !.display = roundedToString(Div(val, Rat(100, 1)))]

\* the updater of handlePercent
handlePercent(prev) ==
    IF prev.isError THEN prev
    ELSE IF prev.expressionMode
         THEN [prev EXCEPT !.fullExpression = Append(prev.fullExpression, "%"),
                           !.expression = Append(prev.fullExpression, "%")]
    ELSE PercentOf(prev, parseFloat(prev.display))

\* a handleBackspace that stays in expression mode on an emptied expression
handleBackspaceKeepingMode(prev) ==
    IF prev.isError THEN initialState
    ELSE IF prev.justCalculated THEN initialState
    ELSE IF prev.expressionMode
         THEN [prev EXCEPT !.fullExpression = DropLast(prev.fullExpression),
                           !.expression = DropLast(prev.fullExpression),
                           !.display = <<"0">>]
    ELSE IF Len(prev.display) <= 1 \/ prev.display = <<"0">>
         THEN [prev EXCEPT !.display = <<"0">>]
    ELSE [prev EXCEPT !.display = DropLast(prev.display)]

\* the updater of handleBackspace
handleBackspace(prev) ==
    IF prev.isError THEN initialState
    ELSE IF prev.justCalculated THEN initialState
    ELSE IF prev.expressionMode
         THEN LET newFull == DropLast(prev.fullExpression)
              IN IF newFull = <<>> THEN initialState
                 ELSE [prev EXCEPT !.fullExpression = newFull,
                                   !.expression = newFull,
                                   !.display = <<newFull[Len(newFull)]>>]
    ELSE IF Len(prev.display) <= 1 \/ prev.display = <<"0">>
         THEN [prev EXCEPT !.display = <<"0">>]
    ELSE [prev EXCEPT !.display = DropLast(prev.display)]

\* handleNegate without its isError guard
handleNegateUnguarded(prev) ==
    IF prev.display = <<"0">> THEN prev
    ELSE [prev EXCEPT !.display = IF Len(prev.display) > 0 /\ prev.display[1] = "-"
                                  THEN Tail(prev.display)
                                  ELSE <<"-">> \o prev.display]

\* a handleNegate that signs a display "0"
handleNegateOfZero(prev) ==
    IF prev.isError THEN prev
    ELSE [prev EXCEPT !.display = IF Len(prev.display) > 0 /\ prev.display[1] = "-"
                                  THEN Tail(prev.display)
                                  ELSE <<"-">> \o prev.display]

\* the updater of handleNegate
handleNegate(prev) ==
    IF prev.isError THEN prev
    ELSE IF prev.display = <<"0">> THEN prev
    ELSE [prev EXCEPT !.display = IF Len(prev.display) > 0 /\ prev.display[1] = "-"
                                  THEN Tail(prev.display)
                                  ELSE <<"-">> \o prev.display]

(* --------------------------- mutation hooks ---------------------------- *)
\* what a mutateAsync call meets: the actor answers ("ok"), the actor call
\* fails ("fail"), or there is no actor ("none")
RemoteStates == {"ok", "fail", "none"}

Resolved(result) == [status |-> "resolved", result |-> result]
Rejected == [status |-> "rejected", result |-> 0]

\* BigInt and Motoko Int division, truncating toward zero
TruncDiv(x, y) == IF (x < 0) # (y < 0) THEN -(Abs(x) \div Abs(y)) ELSE Abs(x) \div Abs(y)

localAdd(x, y) == Resolved(x + y)
localSubtract(x, y) == Resolved(x - y)
localMultiply(x, y) == Resolved(x * y)
localDivide(x, y) == IF y = 0 THEN Rejected ELSE Resolved(TruncDiv(x, y))

\* a mutationFn of useAdd without the local fallback
useAddRejecting(x, y, remote) ==
    IF remote = "ok" THEN Resolved(x + y) ELSE Rejected

\* the mutationFn of useAdd
useAdd(x, y, remote) ==
    IF remote = "none" THEN localAdd(x, y)
    ELSE IF remote = "ok" THEN Resolved(x + y)
    ELSE localAdd(x, y)

\* the mutationFn of useSubtract
useSubtract(x, y, remote) ==
    IF remote = "none" THEN localSubtract(x, y)
    ELSE IF remote = "ok" THEN Resolved(x - y)
    ELSE localSubtract(x, y)

\* the mutationFn of useMultiply
useMultiply(x, y, remote) ==
    IF remote = "none" THEN localMultiply(x, y)
    ELSE IF remote = "ok" THEN Resolved(x * y)
    ELSE localMultiply(x, y)

\* the mutationFn of useDivide
useDivide(x, y, remote) ==
    IF y = 0 THEN Rejected
    ELSE IF remote = "none" THEN localDivide(x, y)
    ELSE IF remote = "ok" THEN Resolved(TruncDiv(x, y))
    ELSE localDivide(x, y)

(* ------------------------------ the actor ------------------------------ *)
\* sevenDaysNanos of filterHistoryByTime, in days
SevenDays == 7

\* an addToHistory that keeps ten of the old entries
addToHistoryKeepingTen(history, expression, result, time) ==
    <<[expression |-> expression, result |-> result, timestamp |-> time]>>
        \o SubSeq(history, 1, IF Len(history) > 10 THEN 10 ELSE Len(history))

\* addToHistory at Time.now() = time, with historyWithLimit(9): the new entry
\* in front of the first nine of the old ones
addToHistory(history, expression, result, time) ==
    <<[expression |-> expression, result |-> result, timestamp |-> time]>>
        \o SubSeq(history, 1, IF Len(history) > 9 THEN 9 ELSE Len(history))

\* a filterHistoryByTime that keeps every entry
filterHistoryByTimeKeepingAll(history, time) == history

\* filterHistoryByTime at Time.now() = time
filterHistoryByTime(history, time) ==
    SelectSeq(history, LAMBDA entry : time - entry.timestamp <= SevenDays)

\* a divide that records the division by zero before it traps
ServiceOperationRecordingTrap(history, op, x, y, time) ==
    IF op = "/" /\ y = 0
    THEN [trapped |-> TRUE,
          history |-> addToHistory(history, IntToStr(x) \o <<" ", op, " ">> \o IntToStr(y), <<"0">>, time)]
    ELSE [trapped |-> FALSE,
          history |-> addToHistory(history, IntToStr(x) \o <<" ", op, " ">> \o IntToStr(y),
                                   IntToStr(CASE op = "+" -> x + y [] op = "-" -> x - y
                                              [] op = "*" -> x * y [] OTHER -> TruncDiv(x, y)), time)]

\* add, subtract, multiply and divide of the actor at Time.now() = time:
\* whether the call trapped and the calculationHistory it leaves
ServiceOperation(history, op, x, y, time) ==
    IF op = "/" /\ y = 0 THEN [trapped |-> TRUE, history |-> history]
    ELSE [trapped |-> FALSE,
          history |-> addToHistory(history, IntToStr(x) \o <<" ", op, " ">> \o IntToStr(y),
                                   IntToStr(CASE op = "+" -> x + y [] op = "-" -> x - y
                                              [] op = "*" -> x * y [] OTHER -> TruncDiv(x, y)), time)]

\* the calculationHistory a mutateAsync call leaves: useDivide throws on a zero
\* divisor before it calls the actor, no hook calls an actor it does not
\* have ("none"), and the actor runs the operation when it answers ("ok")
Served(history, op, x, y, remote, time) ==
    IF ~(op = "/" /\ y = 0) /\ remote = "ok"
    THEN ServiceOperation(history, op, x, y, time).history
    ELSE history

(* ------------------------- the timestamp cache ------------------------- *)
\* sevenDaysMs of saveLocalTimestamp, in days
sevenDaysMs == 7

\* a saveLocalTimestamp that stamps the key anew on every write
saveLocalTimestampRefreshing(cache, key, time) ==
    [k \in {j \in DOMAIN cache \cup {key} :
                ~(time - (IF j = key THEN time ELSE cache[j]) > sevenDaysMs)}
        |-> IF k = key THEN time ELSE cache[k]]

\* saveLocalTimestamp at Date.now() = time, a positive number: the key is
\* stamped if the cache has none for it, then every entry older than seven
\* days is deleted
saveLocalTimestamp(cache, key, time) ==
    [k \in {j \in DOMAIN cache \cup {key} :
                ~(time - (IF j \in DOMAIN cache THEN cache[j] ELSE time) > sevenDaysMs)}
        |-> IF k \in DOMAIN cache THEN cache[k] ELSE time]

\* the cache a mutateAsync call leaves: the hook saves the expression and the
\* result the actor answered with
Saved(cache, op, x, y, remote, time) ==
    IF ~(op = "/" /\ y = 0) /\ remote = "ok"
    THEN saveLocalTimestamp(cache,
             ServiceOperation(<<>>, op, x, y, time).history[1].expression \o <<"=">>
                 \o ServiceOperation(<<>>, op, x, y, time).history[1].result,
             time)
    ELSE cache
(* ------------------------------- equals -------------------------------- *)
\* the setState of the failed expression and of the division by zero
EqualsFailed(prev, expression) ==
    [prev EXCEPT !.display = ErrorStr, !.expression = expression,
                 !.isError = TRUE, !.justCalculated = FALSE]

\* the setState of a result without operand1
EqualsResultUnprimed(result, expression) ==
    [initialState EXCEPT !.display = result,
                         !.expression = expression \o <<" ", "=", " ">> \o result,
                         !.justCalculated = TRUE]

\* the setState of a result
EqualsResult(result, expression) ==
    [initialState EXCEPT !.display = result,
                         !.expression = expression \o <<" ", "=", " ">> \o result,
                         !.operand1 = result,
                         !.justCalculated = TRUE]

\* the setState of the catch block of handleEquals
EqualsCaught(prev) ==
    [prev EXCEPT !.display = ErrorStr, !.isError = TRUE, !.justCalculated = FALSE]

\* an expression branch that spreads the state it read, not initialState
EqualsEvaluatedInPlace(cur, result) ==
    IF result = Null \/ result = Str(ErrorStr)
    THEN EqualsFailed(cur, cur.fullExpression \o <<" ", "=">>)
    ELSE [cur EXCEPT !.display = result.s,
                     !.expression = cur.fullExpression \o <<" ", "=", " ">> \o result.s,
                     !.operand1 = result.s,
                     !.justCalculated = TRUE]

\* the expression branch of handleEquals once safeEvaluate has returned
EqualsEvaluated(cur, result) ==
    IF result = Null \/ result = Str(ErrorStr)
    THEN EqualsFailed(cur, cur.fullExpression \o <<" ", "=">>)
    ELSE EqualsResult(result.s, cur.fullExpression)

\* handleEquals without its return while waitingForOperand2
EqualsBranchEager(cur, x, y) ==
    IF cur.isError THEN "return"
    ELSE IF cur.expressionMode /\ cur.fullExpression # <<>> THEN "expression"
    ELSE IF cur.operator = NoOperator THEN "return"
    ELSE IF IsNaN(x) \/ IsNaN(y) THEN "return"
    ELSE IF x.k = "unk" \/ y.k = "unk" THEN "unmodelled"
    ELSE IF x.k = "inf" \/ y.k = "inf" THEN "throw"
    ELSE IF cur.operator = "/" /\ IsZero(y) THEN "divzero"
    ELSE IF cur.operator = "/" /\ Div(x, y).k = "unk" THEN "unmodelled"
    ELSE "call"

\* what handleEquals does with the state it reads and the operands x and y
\* it parses, up to its first await of a mutation: "return" (nothing),
\* "expression" (the expression branch), "throw" (BigInt of a non-finite
\* number), "divzero", "call", or "unmodelled" (an operand or the quotient
\* is outside the model)
EqualsBranch(cur, x, y) ==
    IF cur.isError THEN "return"
    ELSE IF cur.expressionMode /\ cur.fullExpression # <<>> THEN "expression"
    ELSE IF cur.operator = NoOperator \/ cur.waitingForOperand2 THEN "return"
    ELSE IF IsNaN(x) \/ IsNaN(y) THEN "return"
    ELSE IF x.k = "unk" \/ y.k = "unk" THEN "unmodelled"
    ELSE IF x.k = "inf" \/ y.k = "inf" THEN "throw"
    ELSE IF cur.operator = "/" /\ IsZero(y) THEN "divzero"
    ELSE IF cur.operator = "/" /\ Div(x, y).k = "unk" THEN "unmodelled"
    ELSE "call"

EqualsPath(cur) == EqualsBranch(cur, parseFloat(cur.operand1), parseFloat(cur.display))

\* the mutateAsync call handleEquals awaits, with what its closure holds: the
\* operator and the operands' texts of currentState, the operands as BigInt,
\* the trail, the division result formatted before the await, and whether
\* this is the call the mutation observer of its hook follows (the latest one)
CallOf(cur, x, y) ==
    [op |-> cur.operator,
     operand1 |-> cur.operand1,
     display |-> cur.display,
     x |-> Trunc(x),
     y |-> Trunc(y),
     expr |-> cur.operand1 \o <<" ", opSymbol(cur.operator), " ">> \o cur.display,
     result |-> IF cur.operator = "/" THEN formatDivisionResult(Div(x, y)) ELSE <<>>,
     latest |-> TRUE]

Call(cur) == CallOf(cur, parseFloat(cur.operand1), parseFloat(cur.display))

\* the answer of the mutation a call went to
Mutation(c, remote) ==
    CASE c.op = "+" -> useAdd(c.x, c.y, remote)
      [] c.op = "-" -> useSubtract(c.x, c.y, remote)
      [] c.op = "*" -> useMultiply(c.x, c.y, remote)
      [] OTHER -> useDivide(c.x, c.y, remote)

\* a handleEquals that drops the outcome of its call once the state is cleared
SettledUnlessCleared(prev, c, answer) ==
    IF prev = initialState THEN prev
    ELSE IF c.op = "/" THEN EqualsResult(c.result, c.expr)
    ELSE IF answer.status = "rejected" THEN EqualsCaught(prev)
    ELSE EqualsResult(IntToStr(answer.result), c.expr)

\* a handleEquals whose division does not catch the rejection of its call
SettledUncaught(prev, c, answer) ==
    IF answer.status = "rejected" THEN EqualsCaught(prev)
    ELSE IF c.op = "/" THEN EqualsResult(c.result, c.expr)
    ELSE EqualsResult(IntToStr(answer.result), c.expr)

\* a handleEquals that sets nothing when its call settles
SettledSilently(prev, c, answer) == prev

\* the state handleEquals sets when the awaited call settles
Settled(prev, c, answer) ==
    IF c.op = "/" THEN EqualsResult(c.result, c.expr)
    ELSE IF answer.status = "rejected" THEN EqualsCaught(prev)
    ELSE EqualsResult(IntToStr(answer.result), c.expr)

\* a computeLocal that adds, subtracts and multiplies the operands as parsed
computeLocalUntruncated(op, xi, yi) ==
    IF IsNaN(xi) \/ IsNaN(yi) THEN Null
    ELSE IF xi.k = "unk" \/ yi.k = "unk" THEN Str(UnmodelledStr)
    ELSE IF op = "/"
         THEN IF IsZero(yi) THEN Str(ErrorStr) ELSE Str(formatDivisionResult(Div(xi, yi)))
    ELSE Str(roundedToString(CASE op = "+" -> Add(xi, yi)
                               [] op = "-" -> Add(xi, Neg(yi))
                               [] OTHER -> Mul(xi, yi)))

\* computeLocal once xi and yi are parsed: BigInt throws on a number that is
\* not finite, and the catch returns null
computeLocal(op, xi, yi) ==
    IF IsNaN(xi) \/ IsNaN(yi) THEN Null
    ELSE IF xi.k = "unk" \/ yi.k = "unk" THEN Str(UnmodelledStr)
    ELSE IF op = "/"
         THEN IF IsZero(yi) THEN Str(ErrorStr) ELSE Str(formatDivisionResult(Div(xi, yi)))
    ELSE IF xi.k = "inf" \/ yi.k = "inf" THEN Null
    ELSE Str(IntToStr(CASE op = "+" -> Trunc(xi) + Trunc(yi)
                        [] op = "-" -> Trunc(xi) - Trunc(yi)
                        [] OTHER -> Trunc(xi) * Trunc(yi)))

\* the useMemo of autoResult on the state s
autoResult(s) ==
    IF s.isError \/ s.justCalculated THEN Null
    ELSE IF s.expressionMode /\ s.fullExpression # <<>> THEN safeEvaluate(s.fullExpression)
    ELSE IF s.operator # NoOperator /\ s.operand1 # <<>> /\ ~s.waitingForOperand2
         THEN computeLocal(s.operator, parseFloat(s.operand1), parseFloat(s.display))
    ELSE Null

\* isLoading: isCalculating or one of the four mutations is pending
isLoading ==
    isCalculating \/ \E i \in 1..Len(inflight) : inflight[i].latest

RemoveAt(seq, i) == SubSeq(seq, 1, i - 1) \o SubSeq(seq, i + 1, Len(seq))

\* the calls in flight once mutateAsync is called with c: the observer of
\* the hook follows the new call and no older one
Started(calls, c) ==
    Append([i \in 1..Len(calls) |->
                IF calls[i].op = c.op THEN [calls[i] EXCEPT !.latest = FALSE]
                ELSE calls[i]],
           c)

(* ------------------------------- actions ------------------------------- *)
\* where an input comes from: the keypad (handleButton, disabled while
\* isLoading) or the keydown listener of the window
Sources == {"keypad", "keyboard"}

\* the buttons the keydown listener maps no key to come from the keypad alone
KeypadOnly == {"keypad"}

Init ==
    /\ state = initialState
    /\ isCalculating = FALSE
    /\ inflight = <<>>
    /\ budget = MaxKeys
    /\ last = "init"
    /\ arg = [text |-> <<>>, parts |-> <<>>]
    /\ ret = [done |-> FALSE] /\ calculationHistory = <<>> /\ now = 0 /\ localTimestamps = <<>>

\* an input from src reaches its handler: the keypad's buttons are disabled
\* while isLoading, the keydown listener is not
InputAllowed(src) == src = "keypad" => ~isLoading

\* a key some source of srcs delivers
Pressed(srcs) ==
    /\ budget > 0
    /\ \E src \in srcs : InputAllowed(src)

\* setState(updater) by the handler called name, new the updater's result
SetState(name, new) ==
    /\ state' = new
    /\ state'.display # UnmodelledStr
    /\ budget' = budget - 1
    /\ last' = name
    /\ UNCHANGED <<isCalculating, inflight, arg, ret, calculationHistory, now, localTimestamps>>

Digit(digit) ==
    /\ Pressed(Sources)
    /\ SetState(IF state.isError THEN "handleDigit:isError" ELSE "handleDigit",
                handleDigit(state, digit))

DecimalPoint ==
    /\ Pressed(Sources)
    /\ SetState("handleDecimal", handleDecimal(state))

Operator(op) ==
    /\ Pressed(Sources)
    /\ SetState("handleOperator", handleOperator(state, op))

Backspace ==
    /\ Pressed(Sources)
    /\ SetState("handleBackspace", handleBackspace(state))

\* a Clear that leaves the trail in place
ClearKeepingTrail ==
    /\ \E src \in Sources : InputAllowed(src)
    /\ state' = [initialState EXCEPT !.expression = state.expression]
    /\ last' = "clear"
    /\ UNCHANGED <<isCalculating, inflight, budget, arg, ret, calculationHistory, now, localTimestamps>>

\* setState(initialState): C, Escape
Clear ==
    /\ \E src \in Sources : InputAllowed(src)
    /\ state' = initialState
    /\ last' = "clear"
    /\ UNCHANGED <<isCalculating, inflight, budget, arg, ret, calculationHistory, now, localTimestamps>>

Negate ==
    /\ Pressed(KeypadOnly)
    /\ SetState("handleNegate", handleNegate(state))

Square ==
    /\ Pressed(KeypadOnly)
    /\ SetState("handleSquare", handleSquare(state))

SquareRoot ==
    /\ Pressed(KeypadOnly)
    /\ SetState("handleSqrt", handleSqrt(state))

Reciprocal ==
    /\ Pressed(KeypadOnly)
    /\ SetState("handleReciprocal", handleReciprocal(state))

Power ==
    /\ Pressed(KeypadOnly)
    /\ SetState("handlePower", handlePower(state))

OpenParen ==
    /\ Pressed(KeypadOnly)
    /\ SetState("handleOpenParen", handleOpenParen(state))

CloseParen ==
    /\ Pressed(KeypadOnly)
    /\ SetState("handleCloseParen", handleCloseParen(state))

Percent ==
    /\ Pressed(KeypadOnly)
    /\ SetState("handlePercent", handlePercent(state))

\* handleEquals on the state cur it reads, up to its first await of a
\* mutation
handleEquals(cur, path) ==
    CASE path = "return" ->
            /\ last' = "handleEquals"
            /\ UNCHANGED <<state, isCalculating, inflight>>
      [] path = "expression" ->
            /\ last' = "handleEquals"
            /\ state' = EqualsEvaluated(cur, safeEvaluate(cur.fullExpression))
            /\ state'.display # UnmodelledStr
            /\ UNCHANGED <<isCalculating, inflight>>
      [] path = "throw" ->
            /\ last' = "handleEquals:RangeError"
            /\ UNCHANGED <<state, isCalculating, inflight>>
      [] path = "divzero" ->
            /\ last' = "handleEquals"
            /\ state' = EqualsFailed(cur, cur.operand1 \o <<" ", DivSign, " ", "0">>)
            /\ UNCHANGED <<isCalculating, inflight>>
      [] path = "call" ->
            /\ last' = "handleEquals:await"
            /\ isCalculating' = TRUE
            /\ inflight' = Started(inflight, Call(cur))
            /\ UNCHANGED state
      [] OTHER -> FALSE

\* = or Enter: handleEquals reads the state and resumes before any other
\* event is handled
Equals ==
    /\ Pressed(Sources)
    /\ budget' = budget - 1
    /\ handleEquals(state, EqualsPath(state))
    /\ UNCHANGED <<arg, ret, calculationHistory, now, localTimestamps>>

\* the name of the step in which a call settles, by what the remote did
SettledEvent(remote) ==
    CASE remote = "ok" -> "handleEquals:settled:ok"
      [] remote = "fail" -> "handleEquals:settled:fail"
      [] OTHER -> "handleEquals:settled:none"

\* the awaited call i settles and handleEquals runs to its end
Complete(i, remote) ==
    /\ state' = Settled(state, inflight[i], Mutation(inflight[i], remote))
    /\ isCalculating' = FALSE
    /\ inflight' = RemoveAt(inflight, i)
    /\ last' = SettledEvent(remote)
    /\ calculationHistory' = Served(calculationHistory, inflight[i].op, inflight[i].x, inflight[i].y, remote, now)
    /\ localTimestamps' = Saved(localTimestamps, inflight[i].op, inflight[i].x, inflight[i].y, remote, now)
    /\ UNCHANGED <<budget, arg, ret, now>>

Next ==
    \/ \E digit \in Digits : Digit(digit)
    \/ DecimalPoint
    \/ \E op \in Operators : Operator(op)
    \/ Backspace
    \/ Clear
    \/ Equals
    \/ Negate
    \/ Square
    \/ SquareRoot
    \/ Reciprocal
    \/ Power
    \/ OpenParen
    \/ CloseParen
    \/ Percent
    \/ \E i \in 1..Len(inflight), remote \in RemoteStates : Complete(i, remote)

Spec == Init /\ [][Next]_vars

\* every mutateAsync call settles: the mutation resolves or rejects
SpecSettling ==
    Spec /\ WF_vars(\E i \in 1..Len(inflight), remote \in RemoteStates : Complete(i, remote))

\* a longer session on the number keys, the operators, +/-, DEL, C and =
InitArithmetic ==
    /\ state = initialState
    /\ isCalculating = FALSE
    /\ inflight = <<>>
    /\ budget = MaxArithmeticKeys
    /\ last = "init"
    /\ arg = [text |-> <<>>, parts |-> <<>>]
    /\ ret = [done |-> FALSE] /\ calculationHistory = <<>> /\ now = 0 /\ localTimestamps = <<>>

NextArithmetic ==
    \/ \E digit \in Digits : Digit(digit)
    \/ \E op \in Operators : Operator(op)
    \/ Backspace
    \/ Clear
    \/ Equals
    \/ Negate
    \/ \E i \in 1..Len(inflight), remote \in RemoteStates : Complete(i, remote)

SpecArithmetic == InitArithmetic /\ [][NextArithmetic]_vars

\* 999999999999999 squared five times: 1e+30, 1e+60, 1e+120, 1e+240 and
\* Infinity, which handleSquare shows as a result
InitOverflow ==
    /\ state = Calculated(InfinityStr, <<"(", "1", "e", "+", "2", "4", "0", ")", "<sq>">>)
    /\ isCalculating = FALSE
    /\ inflight = <<>>
    /\ budget = MaxOverflowKeys
    /\ last = "handleSquare"
    /\ arg = [text |-> <<>>, parts |-> <<>>]
    /\ ret = [done |-> FALSE] /\ calculationHistory = <<>> /\ now = 0 /\ localTimestamps = <<>>

SpecOverflow == InitOverflow /\ [][Next]_vars

(* ------------------------- the evaluator alone ------------------------- *)
\* the characters of the expressions safeEvaluate is given
ExprChars == {"0", "2", "3", "+", "-", "*", "/", "(", ")", "^", "%", SqrtSign}

\* the text of the expression on the operands p[1], p[3], p[5] and the
\* operators p[2], p[4], of layout p[6]: a op1 b op2 c ("flat"),
\* (a op1 b) op2 c ("left") or a op1 (b op2 c) ("right")
LayoutText(p) ==
    CASE p[6] = "flat" -> NatToStr(p[1]) \o <<p[2]>> \o NatToStr(p[3]) \o <<p[4]>> \o NatToStr(p[5])
      [] p[6] = "left" ->
            <<"(">> \o NatToStr(p[1]) \o <<p[2]>> \o NatToStr(p[3]) \o <<")", p[4]>> \o NatToStr(p[5])
      [] OTHER ->
            NatToStr(p[1]) \o <<p[2], "(">> \o NatToStr(p[3]) \o <<p[4]>> \o NatToStr(p[5]) \o <<")">>

\* the expressions: every text of MaxExprLen characters at most, the
\* arithmetic expressions on three operands, and the chains a^b^c followed
\* by an operator and an operand d or the root of -d
InitEvaluate ==
    /\ \/ \E n \in 0..MaxExprLen : \E s \in [1..n -> ExprChars] :
              arg = [text |-> s, parts |-> <<>>]
       \/ \E a, b, c \in 0..MaxOperand : \E op1, op2 \in Operators : \E l \in {"flat", "left", "right"} :
              arg = [text |-> LayoutText(<<a, op1, b, op2, c, l>>),
                     parts |-> <<a, op1, b, op2, c, l>>]
       \/ \E a, b, c, d \in 0..MaxOperand : \E op \in Operators : \E root \in BOOLEAN :
              arg = [text |-> NatToStr(a) \o <<"^">> \o NatToStr(b) \o <<"^">> \o NatToStr(c)
                              \o <<op>> \o (IF root THEN <<SqrtSign, "-">> ELSE <<>>)
                              \o NatToStr(d),
                     parts |-> <<>>]
    /\ ret = [done |-> FALSE] /\ calculationHistory = <<>> /\ now = 0 /\ localTimestamps = <<>>
    /\ state = initialState
    /\ isCalculating = FALSE
    /\ inflight = <<>>
    /\ budget = 0
    /\ last = "init"

\* safeEvaluate(arg.text): what evaluateExpression gave (value,
\* involvesDivision, cursor, the Error thrown) and what safeEvaluate returned
SafeEvaluate ==
    /\ ~ret.done
    /\ evaluateExpression(arg.text).err # "unmodelled"
    /\ ret' = [done |-> TRUE,
               evaluated |-> evaluateExpression(arg.text),
               tokens |-> tokenize(arg.text),
               returned |-> safeEvaluate(arg.text)]
    /\ ret'.returned # Str(UnmodelledStr)
    /\ UNCHANGED <<arg, state, isCalculating, inflight, budget, last, calculationHistory, now, localTimestamps>>

SpecEvaluate == InitEvaluate /\ [][SafeEvaluate]_vars

(* ------------------------ entry on a long display ---------------------- *)
\* two-operand entry on a display of MaxDisplayDigits characters at most that
\* was typed before: whole digits 1 (or "0" when whole is 0), then a decimal
\* point and frac digits 1 unless frac is -1, after the minus sign of +/-
\* when neg
InitEntry ==
    /\ \E whole \in 0..MaxDisplayDigits, frac \in -1..MaxDisplayDigits, neg \in BOOLEAN :
          /\ (IF whole = 0 THEN 1 ELSE whole) + frac + 1 <= MaxDisplayDigits
          /\ neg => (whole > 0 \/ frac >= 0)
          /\ state = [initialState EXCEPT !.display =
                          (IF neg THEN <<"-">> ELSE <<>>)
                          \o (IF whole = 0 THEN <<"0">> ELSE [i \in 1..whole |-> "1"])
                          \o (IF frac < 0 THEN <<>> ELSE <<".">> \o [i \in 1..frac |-> "1"])]
    /\ isCalculating = FALSE
    /\ inflight = <<>>
    /\ budget = MaxEntryKeys
    /\ last = "init"
    /\ arg = [text |-> <<>>, parts |-> <<>>]
    /\ ret = [done |-> FALSE] /\ calculationHistory = <<>> /\ now = 0 /\ localTimestamps = <<>>

\* MaxEntryKeys digits or points typed on it
SpecEntry == InitEntry /\ [][(\E digit \in Digits : Digit(digit)) \/ DecimalPoint]_vars

(* ------------- the division formatter and the tokenizer alone ---------- *)
\* the quotients a / b of two integers, b not 0, for formatDivisionResult, and
\* the texts of MaxTextLen characters at most over a digit, the point, the
\* characters tokenize knows, the space and a letter, for tokenize
InitFunctions ==
    /\ \/ \E a \in -MaxDividend..MaxDividend, b \in (-MaxDivisor..MaxDivisor) \ {0} :
              arg = [text |-> <<>>, parts |-> <<a, b>>]
       \/ \E n \in 0..MaxTextLen :
              \E s \in [1..n -> {"1", ".", " ", "a", SqrtSign} \cup OperatorChars] :
                 arg = [text |-> s, parts |-> <<>>]
    /\ ret = [done |-> FALSE] /\ calculationHistory = <<>> /\ now = 0 /\ localTimestamps = <<>>
    /\ state = initialState
    /\ isCalculating = FALSE
    /\ inflight = <<>>
    /\ budget = 0
    /\ last = "init"

\* formatDivisionResult(a / b)
FormatDivision ==
    /\ ~ret.done
    /\ arg.parts # <<>>
    /\ ret' = [done |-> TRUE,
               returned |-> formatDivisionResult(Div(Rat(arg.parts[1], 1), Rat(arg.parts[2], 1)))]
    /\ UNCHANGED <<arg, state, isCalculating, inflight, budget, last, calculationHistory, now, localTimestamps>>

\* tokenize(arg.text)
Tokenize ==
    /\ ~ret.done
    /\ arg.parts = <<>>
    /\ ret' = [done |-> TRUE, tokens |-> tokenize(arg.text)]
    /\ UNCHANGED <<arg, state, isCalculating, inflight, budget, last, calculationHistory, now, localTimestamps>>

SpecFunctions == InitFunctions /\ [][FormatDivision \/ Tokenize]_vars

(* ------------------------- the actor on its own ------------------------ *)
\* the actor after up to ten additions at time 0, seven days later at most;
\* arg.parts keeps the operations that succeeded since the last clearHistory,
\* newest first
InitService ==
    /\ \E n \in 0..10 :
          /\ calculationHistory = [i \in 1..n |-> [expression |-> IntToStr(i) \o <<" ", "+", " ">> \o IntToStr(2),
                                                   result |-> IntToStr(i + 2), timestamp |-> 0]]
          /\ arg = [text |-> <<>>, parts |-> [i \in 1..n |-> [op |-> "+", x |-> i, y |-> 2]]]
    /\ now \in {0, SevenDays}
    /\ localTimestamps = <<>>
    /\ ret = [done |-> FALSE]
    /\ state = initialState
    /\ isCalculating = FALSE
    /\ inflight = <<>>
    /\ budget = MaxServiceCalls
    /\ last = "init"

\* a caller calls add, subtract, multiply or divide of the actor
ServiceCall(op, x, y) ==
    /\ budget > 0
    /\ calculationHistory' = ServiceOperation(calculationHistory, op, x, y, now).history
    /\ ret' = [done |-> TRUE, op |-> op, x |-> x, y |-> y,
               trapped |-> ServiceOperation(calculationHistory, op, x, y, now).trapped, contacted |-> TRUE]
    /\ arg' = IF ServiceOperation(calculationHistory, op, x, y, now).trapped THEN arg
              ELSE [arg EXCEPT !.parts = <<[op |-> op, x |-> x, y |-> y]>> \o @]
    /\ budget' = budget - 1
    /\ last' = "actor"
    /\ UNCHANGED <<state, isCalculating, inflight, now, localTimestamps>>

\* the mutationFn of useDivide runs to its end
MutateDivide(x, y, remote) ==
    /\ budget > 0
    /\ calculationHistory' = Served(calculationHistory, "/", x, y, remote, now)
    /\ ret' = [done |-> TRUE, op |-> "/", x |-> x, y |-> y,
               answer |-> useDivide(x, y, remote), contacted |-> (y # 0 /\ remote # "none"),
               saved |-> (y # 0 /\ remote = "ok")]
    /\ arg' = IF y # 0 /\ remote = "ok"
              THEN [arg EXCEPT !.parts = <<[op |-> "/", x |-> x, y |-> y]>> \o @]
              ELSE arg
    /\ budget' = budget - 1
    /\ localTimestamps' = Saved(localTimestamps, "/", x, y, remote, now)
    /\ last' = "useDivide"
    /\ UNCHANGED <<state, isCalculating, inflight, now>>

\* the query getHistory
GetHistory ==
    /\ budget > 0
    /\ ret' = [done |-> TRUE,
               history |-> [i \in 1..Len(filterHistoryByTime(calculationHistory, now)) |->
                               <<filterHistoryByTime(calculationHistory, now)[i].expression,
                                 filterHistoryByTime(calculationHistory, now)[i].result>>]]
    /\ budget' = budget - 1
    /\ last' = "getHistory"
    /\ UNCHANGED <<state, isCalculating, inflight, arg, calculationHistory, now, localTimestamps>>

\* clearHistory
ClearHistory ==
    /\ budget > 0
    /\ calculationHistory' = <<>>
    /\ arg' = [arg EXCEPT !.parts = <<>>]
    /\ ret' = [done |-> TRUE]
    /\ budget' = budget - 1
    /\ last' = "clearHistory"
    /\ UNCHANGED <<state, isCalculating, inflight, now, localTimestamps>>

\* time passes
Tick(days) ==
    /\ budget > 0
    /\ now' = now + days
    /\ budget' = budget - 1
    /\ last' = "Time.now"
    /\ UNCHANGED <<state, isCalculating, inflight, arg, ret, calculationHistory, localTimestamps>>

SpecService ==
    InitService /\ [][\/ \E op \in Operators, x \in {-3, 2}, y \in {0, 2} : ServiceCall(op, x, y)
                      \/ \E x \in {-3, 2}, y \in {0, 2}, remote \in RemoteStates : MutateDivide(x, y, remote)
                      \/ GetHistory
                      \/ ClearHistory
                      \/ \E days \in {1, SevenDays} : Tick(days)]_vars


(* -------------------- the timestamp cache on its own ------------------- *)
\* an empty localStorage and an actor without history, Date.now() positive
InitCache ==
    /\ localTimestamps = <<>>
    /\ calculationHistory = <<>>
    /\ now = 1
    /\ arg = [text |-> <<>>, parts |-> <<>>]
    /\ ret = [done |-> FALSE]
    /\ state = initialState
    /\ isCalculating = FALSE
    /\ inflight = <<>>
    /\ budget = MaxCacheSteps
    /\ last = "init"

\* divisions through the mutation of useDivide, days apart
SpecCache ==
    InitCache /\ [][\/ \E x \in {-3, 2}, y \in {0, 2}, remote \in RemoteStates : MutateDivide(x, y, remote)
                    \/ \E days \in {1, sevenDaysMs} : Tick(days)]_vars

(* ------------------------------ properties ----------------------------- *)
\* the default state, field by field
DefaultState == [
    display |-> <<"0">>,
    expression |-> <<>>,
    operator |-> "null",
    operand1 |-> <<>>,
    waitingForOperand2 |-> FALSE,
    justCalculated |-> FALSE,
    isError |-> FALSE,
    expressionMode |-> FALSE,
    fullExpression |-> <<>>]

\* the default state but for a result r, primed as operand1, and its trail
ResultState(r, trail) ==
    [DefaultState EXCEPT !.display = r,
                         !.operand1 = r,
                         !.expression = trail \o <<" ", "=", " ">> \o r,
                         !.justCalculated = TRUE]

\* the symbol the trail shows for an operator
SymbolOf(op) ==
    CASE op = "+" -> "+" [] op = "-" -> "<minus>" [] op = "*" -> "<times>"
      [] op = "/" -> "<div>"

\* "a <symbol> b" of the call c
TrailOf(c) == c.operand1 \o <<" ", SymbolOf(c.op), " ">> \o c.display

\* the quotient of the untruncated operands of c, formatted
QuotientOf(c) == formatDivisionResult(Div(parseFloat(c.operand1), parseFloat(c.display)))

\* the sum, difference or product of the truncated operands of c
IntegerResultOf(c) ==
    IntToStr(CASE c.op = "+" -> Trunc(parseFloat(c.operand1)) + Trunc(parseFloat(c.display))
               [] c.op = "-" -> Trunc(parseFloat(c.operand1)) - Trunc(parseFloat(c.display))
               [] OTHER -> Trunc(parseFloat(c.operand1)) * Trunc(parseFloat(c.display)))

\* this step is handleEquals, up to its first await
EqualsStep ==
    /\ budget' = budget - 1
    /\ last' \in {"handleEquals", "handleEquals:await", "handleEquals:RangeError"}

\* this step settles the i-th call in flight
SettlesCall(i) == inflight' = RemoveAt(inflight, i)

\* this step settles a call the remote service did not answer
RemoteFailed == last' \in {"handleEquals:settled:fail", "handleEquals:settled:none"}

\* C1: in every reachable state waitingForOperand2 and justCalculated are
\* not both true
NeverWaitingAndCalculated ==
    ~(state.waitingForOperand2 /\ state.justCalculated)

\* an operator pressed on the result of 3 squared
OperatorAfterResult ==
    /\ state.waitingForOperand2
    /\ state.operand1 = <<"9">>
    /\ last = "handleOperator"

\* C2: in every reachable state isError implies that display is exactly
\* "Error", whatever was handled while isError was true
ErrorShowsError ==
    state.isError => state.display = <<"E", "r", "r", "o", "r">>

\* a close-paren handled in the Error state
CloseParenInError ==
    /\ state.isError
    /\ last = "handleCloseParen"

\* C3: Clear, in any reachable state, yields exactly the default state
ClearYieldsDefault ==
    last = "clear" => state = DefaultState

\* Escape while a call is in flight
ClearedWhileCalculating ==
    /\ last = "clear"
    /\ isCalculating
    /\ Len(inflight) > 0

\* C4: in two-operand mode, equals with division pending and a display of
\* numeric value zero moves to the Error state with display "Error" and
\* expression "<operand1> <div> 0", and starts no remote call
DivisionByZeroIsError ==
    [][(/\ EqualsStep
        /\ ~state.isError
        /\ ~state.expressionMode
        /\ state.operator = "/"
        /\ ~state.waitingForOperand2
        /\ IsZero(parseFloat(state.display)))
       => (/\ state'.isError
           /\ state'.display = <<"E", "r", "r", "o", "r">>
           /\ state'.expression = state.operand1 \o <<" ", "<div>", " ", "0">>
           /\ inflight' = inflight)]_vars

\* C5: a successful two-operand equals on a, op, b leaves the default state
\* except justCalculated, display = r, operand1 = r and expression
\* "a <symbol> b = r", r the result; 1, 0, /, 3, = ends with "3.3333333333"
\* and "10 <div> 3 = 3.3333333333"
SuccessfulEqualsState ==
    [][\A i \in 1..Len(inflight) :
          (SettlesCall(i) /\ ~state'.isError)
          => (/\ state' = ResultState(state'.display, TrailOf(inflight[i]))
              /\ state'.display = IF inflight[i].op = "/" THEN QuotientOf(inflight[i])
                                  ELSE IntegerResultOf(inflight[i])
              /\ (/\ inflight[i].operand1 = <<"1", "0">>
                  /\ inflight[i].op = "/"
                  /\ inflight[i].display = <<"3">>)
                 => (/\ state'.display =
                          <<"3", ".", "3", "3", "3", "3", "3", "3", "3", "3", "3", "3">>
                     /\ state'.expression =
                          <<"1", "0", " ", "<div>", " ", "3", " ", "=", " ",
                            "3", ".", "3", "3", "3", "3", "3", "3", "3", "3", "3", "3">>))]_vars

\* the end of 1, 0, /, 3, =
TenDividedByThree ==
    /\ state.justCalculated
    /\ state.operand1 = <<"3", ".", "3", "3", "3", "3", "3", "3", "3", "3", "3", "3">>
    /\ state.expression =
         <<"1", "0", " ", "<div>", " ", "3", " ", "=", " ",
           "3", ".", "3", "3", "3", "3", "3", "3", "3", "3", "3", "3">>
    /\ last = "handleEquals:settled:ok"

\* C6: in two-operand mode, equals with no operator pending or with
\* waitingForOperand2 true leaves every field unchanged and starts no call
EqualsWithoutOperandsIsNoOp ==
    [][(/\ EqualsStep
        /\ ~state.isError
        /\ ~state.expressionMode
        /\ (state.operator = "null" \/ state.waitingForOperand2))
       => (/\ state' = state
           /\ inflight' = inflight
           /\ isCalculating' = isCalculating)]_vars

\* equals pressed right after an operator
EqualsWhileWaiting ==
    /\ last = "handleEquals"
    /\ state.waitingForOperand2
    /\ state.operator # "null"
    /\ inflight = <<>>

\* C7: in expression mode, equals evaluates fullExpression with
\* safeEvaluate: null or "Error" gives the Error state, any other outcome
\* the JustCalculated state with display and operand1 the formatted result,
\* expressionMode false and fullExpression empty; no remote call either way
ExpressionEqualsState ==
    [][(/\ EqualsStep
        /\ ~state.isError
        /\ state.expressionMode
        /\ state.fullExpression # <<>>)
       => (/\ inflight' = inflight
           /\ isCalculating' = isCalculating
           /\ IF safeEvaluate(state.fullExpression) \in {Null, Str(<<"E", "r", "r", "o", "r">>)}
              THEN /\ state'.isError
                   /\ state'.display = <<"E", "r", "r", "o", "r">>
              ELSE /\ ~state'.isError
                   /\ state'.justCalculated
                   /\ state'.display = safeEvaluate(state.fullExpression).s
                   /\ state'.operand1 = state'.display
                   /\ ~state'.expressionMode
                   /\ state'.fullExpression = <<>>)]_vars

\* the end of 3, x^y, 3, =
ThreeCubed ==
    /\ last = "handleEquals"
    /\ state.justCalculated
    /\ state.display = <<"2", "7">>
    /\ state.expression = <<"3", "^", "3", " ", "=", " ", "2", "7">>

\* C8, as the program has it: when the remote service is unavailable or its
\* add, subtract or multiply call fails, the hook computes the result
\* locally, and equals ends in the JustCalculated state with the exact
\* integer result of the truncated operands
RemoteFailureFallsBack ==
    [][\A i \in 1..Len(inflight) :
          (SettlesCall(i) /\ RemoteFailed /\ inflight[i].op \in {"+", "-", "*"})
          => state' = ResultState(IntegerResultOf(inflight[i]), TrailOf(inflight[i]))]_vars

\* C8, as the claim has it: such an equals ends in the Error state
RemoteFailureIsError ==
    [][\A i \in 1..Len(inflight) :
          (SettlesCall(i) /\ RemoteFailed /\ inflight[i].op \in {"+", "-", "*"})
          => (state'.isError /\ state'.display = <<"E", "r", "r", "o", "r">>)]_vars

\* the end of 1, +, 3, = without an actor
SumWithoutRemote ==
    /\ last = "handleEquals:settled:none"
    /\ state.justCalculated
    /\ state.expression = <<"1", " ", "+", " ", "3", " ", "=", " ", "4">>

InputRejectedWhileCalculating ==
    [][(Len(inflight) > 0 /\ Len(inflight') >= Len(inflight))
       => (state' = state /\ inflight' = inflight)]_vars

\* the result of the operands the call c was made with
ExpectedResultOf(c) == IF c.op = "/" THEN QuotientOf(c) ELSE IntegerResultOf(c)

\* the state the catch block of handleEquals leaves, from the state s
CaughtFrom(s) ==
    [s EXCEPT !.display = <<"E", "r", "r", "o", "r">>,
              !.isError = TRUE,
              !.justCalculated = FALSE]

\* the call d is the call c, whichever the observer of its hook follows
SameCall(c, d) == [c EXCEPT !.latest = TRUE] = [d EXCEPT !.latest = TRUE]

ErrorIsRecoverable ==
    [][state.isError
       => /\ (last' \in {"handleDigit", "handleDigit:isError"} /\ budget' = budget - 1)
             => \E d \in {"0", "1", "2", "3", "4", "5", "6", "7", "8", "9"} :
                   state' = [DefaultState EXCEPT !.display = <<d>>]
          /\ last' = "clear" => state' = DefaultState]_vars

\* the digit 3 typed in the Error state
DigitAfterError ==
    /\ last = "handleDigit:isError"
    /\ state = [DefaultState EXCEPT !.display = <<"3">>]

\* the '(' of s[i..] left open, after depth open ones
RECURSIVE OpenDepth(_, _, _)
OpenDepth(s, i, depth) ==
    IF i > Len(s) THEN depth
    ELSE IF s[i] = "(" THEN OpenDepth(s, i + 1, depth + 1)
    ELSE IF s[i] = ")" /\ depth > 0 THEN OpenDepth(s, i + 1, depth - 1)
    ELSE OpenDepth(s, i + 1, depth)

\* the evaluator returned a value
Succeeded == ret.done /\ ret.evaluated.err = ""

\* the tokens the evaluator consumed
Consumed == 1..(ret.evaluated.pos - 1)

\* C13: evaluate fails, and safeEvaluate returns null, for every
\* expression with an unmatched '('
UnmatchedParenFails ==
    (ret.done /\ OpenDepth(arg.text, 1, 0) > 0)
    => (ret.evaluated.err # "" /\ ret.returned = Null)

\* C14: evaluate returns a value only if every token was consumed
TrailingTokensFail ==
    Succeeded => ret.evaluated.pos = Len(ret.tokens) + 1

\* x op y on the numbers of the model
Applied(op, x, y) ==
    CASE op = "+" -> Add(x, y) [] op = "-" -> Add(x, Neg(y)) [] op = "*" -> Mul(x, y)
      [] OTHER -> Div(x, y)

\* in the expression of parts p the second operator is applied first:
\* a op1 (b op2 c), or a op1 b op2 c with op2 of higher precedence
SecondFirst(p) ==
    p[6] = "right" \/ (p[6] = "flat" /\ p[2] \in {"+", "-"} /\ p[4] \in {"*", "/"})

\* no division of the expression of parts p is a division by zero
NoZeroDivisor(p) ==
    IF SecondFirst(p)
    THEN /\ p[4] = "/" => p[5] # 0
         /\ p[2] = "/" => ~IsZero(Applied(p[4], Rat(p[3], 1), Rat(p[5], 1)))
    ELSE /\ p[2] = "/" => p[3] # 0
         /\ p[4] = "/" => p[5] # 0

\* the arithmetic value of the expression of parts p: '*' and '/' before
\* '+' and '-', equal precedence left to right, parentheses first
ReferenceValue(p) ==
    IF SecondFirst(p)
    THEN Applied(p[2], Rat(p[1], 1), Applied(p[4], Rat(p[3], 1), Rat(p[5], 1)))
    ELSE Applied(p[4], Applied(p[2], Rat(p[1], 1), Rat(p[3], 1)), Rat(p[5], 1))

\* C15: '*' and '/' bind tighter than '+' and '-', equal precedence goes
\* left to right, parentheses override: the value of an expression on three
\* bounded integers is its arithmetic value, and involvesDivision is false
\* when it is built from + - * and parentheses
PrecedenceIsArithmetic ==
    (ret.done /\ arg.parts # <<>> /\ NoZeroDivisor(arg.parts))
    => /\ ret.evaluated.err = ""
       /\ ret.evaluated.v = ReferenceValue(arg.parts)
       /\ ret.evaluated.pos = Len(ret.tokens) + 1
       /\ (arg.parts[2] # "/" /\ arg.parts[4] # "/") => ~ret.evaluated.div
       /\ arg.text = <<"2", "+", "3", "*", "4">>
          => (ret.evaluated.v = Rat(14, 1) /\ ret.returned = Str(<<"1", "4">>))

\* 2+3*4 evaluated to 14
TwoPlusThreeTimesFour ==
    /\ ret.done
    /\ arg.parts = <<2, "+", 3, "*", 4, "flat">>
    /\ ret.returned = Str(<<"1", "4">>)
    /\ ~ret.evaluated.div

\* C16: in a chain a^b^c every '^' is applied to the unary operand on its
\* right, as power := unary ('^' unary)* has it: every token is consumed
\* and the value is that of (a^b)^c, so it depends on c
PowerChainConsumed ==
    (/\ ret.done
     /\ Len(arg.text) = 5
     /\ arg.text[2] = "^"
     /\ arg.text[4] = "^"
     /\ {arg.text[1], arg.text[3], arg.text[5]} \subseteq {"0", "2", "3"})
    => /\ ret.evaluated.err = ""
       /\ ret.evaluated.pos = Len(ret.tokens) + 1
       /\ ret.evaluated.v = Pow(Pow(parseFloat(<<arg.text[1]>>), parseFloat(<<arg.text[3]>>)),
                                 parseFloat(<<arg.text[5]>>))

\* C17: when evaluate succeeds involvesDivision is true if and only if a
\* '/' was executed, that is, consumed, wherever it stands; a '%' alone
\* does not set it
DivisionFlagIffExecuted ==
    Succeeded
    => (ret.evaluated.div <=> \E i \in Consumed : ret.tokens[i] = <<"/">>)

\* 3/2+3: the division is followed by an addition
DivisionThenAddition ==
    /\ Succeeded
    /\ arg.text = <<"3", "/", "2", "+", "3">>
    /\ ret.evaluated.div
    /\ ret.returned = Str(<<"4", ".", "5">>)

\* a division the evaluator executed has a right operand that is not 0, and a
\* root it executed has an operand that is not negative
ExecutedOperandsChecked ==
    Succeeded
    => \A i \in Consumed :
          /\ ret.tokens[i] = <<"/">>
             => ~IsZero(PowerPercent(ret.tokens, i + 1, FALSE).v)
          /\ ret.tokens[i] = <<SqrtSign>>
             => ~IsNeg(parseUnary(ret.tokens, i + 1, FALSE).v)

\* C18: evaluate fails whenever the right operand of a '/', after its
\* trailing '%', is exactly 0, wherever the '/' stands: it returns no value
\* for such an expression, safeEvaluate returns null, and 3/0 fails with
\* 'Division by zero'
ZeroDivisorFails ==
    ret.done
    => /\ \A i \in 1..Len(ret.tokens) :
             (/\ ret.tokens[i] = <<"/">>
              /\ PowerPercent(ret.tokens, i + 1, FALSE).err = ""
              /\ IsZero(PowerPercent(ret.tokens, i + 1, FALSE).v))
             => (ret.evaluated.err # "" /\ ret.returned = Null)
       /\ arg.text = <<"3", "/", "0">> => ret.evaluated.err = "Division by zero"

\* C19: evaluate fails whenever the square root sign stands before an
\* operand of negative value: it returns no value, NaN or other, for such an
\* expression
NegativeRootFails ==
    ret.done
    => \A i \in 1..Len(ret.tokens) :
          (/\ ret.tokens[i] = <<SqrtSign>>
           /\ parseUnary(ret.tokens, i + 1, FALSE).err = ""
           /\ IsNeg(parseUnary(ret.tokens, i + 1, FALSE).v))
          => (ret.evaluated.err # "" /\ ret.returned = Null)

\* C20: safeEvaluate returns null exactly when the evaluator fails, "Error"
\* when it succeeds with a value that is not finite, and otherwise the
\* value formatted by the division policy when involvesDivision is true and
\* by the policy of 12 significant digits when it is false
SafeEvaluatePolicy ==
    ret.done
    => /\ ret.returned = Null <=> ret.evaluated.err # ""
       /\ Succeeded
          => ret.returned = Str(IF ~IsFin(ret.evaluated.v) THEN <<"E", "r", "r", "o", "r">>
                                ELSE IF ret.evaluated.div
                                     THEN formatDivisionResult(ret.evaluated.v)
                                ELSE roundedToString(ret.evaluated.v))
       /\ arg.text = <<"2", "/", "3">>
          => ret.returned = Str(<<"0", ".", "6", "6", "6", "6", "6", "6", "6", "6", "6", "7">>)
       /\ arg.text = <<"2", "%">> => ret.returned = Str(<<"0", ".", "0", "2">>)

\* 0^-2 is Infinity: the evaluator succeeds and safeEvaluate returns "Error"
InfinityIsError ==
    /\ Succeeded
    /\ arg.text = <<"0", "^", "-", "2">>
    /\ ret.returned = Str(<<"E", "r", "r", "o", "r">>)

(* ----------------------------- entry claims ---------------------------- *)
\* two-operand entry: no error, no result shown, no expression, no operand
\* awaited
TwoOperandEntry(s) ==
    ~s.isError /\ ~s.justCalculated /\ ~s.expressionMode /\ ~s.waitingForOperand2

\* the display without its leading minus sign
Unsigned(display) ==
    IF Len(display) > 0 /\ display[1] = "-" THEN Tail(display) ELSE display

\* C26: in two-operand entry a digit or a decimal point leaves a display of
\* at most 15 characters, the minus sign not counted; an input that would
\* exceed the cap leaves the state unchanged; a display "0" is replaced by
\* the digit typed
EntryWithinCap ==
    [][(TwoOperandEntry(state) /\ last' \in {"handleDigit", "handleDecimal"})
       => /\ Len(Unsigned(state'.display)) <= MaxDisplayDigits
          /\ Len(Unsigned(state.display)) = MaxDisplayDigits => state' = state
          /\ (state.display = <<"0">> /\ last' = "handleDigit")
             => (Len(state'.display) = 1 /\ state'.display[1] \in Digits)]_vars

\* an operator key was handled
OperatorStep == last' = "handleOperator" /\ budget' = budget - 1

\* the symbol of the operator a state holds
SymbolHeld(s) == opSymbol(s.operator)

\* C27: an operator pressed in two-operand mode outside the Error state
\* sets operand1 to the display, operator to the operator pressed and
\* waitingForOperand2 to true; when waitingForOperand2 is already true it
\* changes operator and the symbol of expression alone, and starts no call
SecondOperatorReplacesOnly ==
    [][(OperatorStep /\ ~state.isError /\ ~state.expressionMode)
       => /\ state'.operand1 = state.display
          /\ state'.operator \in Operators
          /\ state'.waitingForOperand2
          /\ state.waitingForOperand2
             => /\ state' = [state EXCEPT !.operator = state'.operator,
                                          !.expression = state.operand1 \o <<" ", SymbolHeld(state')>>]
                /\ inflight' = inflight
                /\ isCalculating' = isCalculating]_vars

\* C27 as the code has it: the operator pressed recaptures the display as
\* operand1 and rebuilds expression from it, whether an operand is awaited
\* or not; display, the flags of the modes and the calls are left alone, and
\* when the display still is operand1 only operator and the symbol change
SecondOperatorRecaptures ==
    [][(OperatorStep /\ ~state.isError /\ ~state.expressionMode)
       => /\ state'.operator \in Operators
          /\ state' = [state EXCEPT !.operator = state'.operator,
                                    !.operand1 = state.display,
                                    !.expression = state.display \o <<" ", SymbolHeld(state')>>,
                                    !.waitingForOperand2 = TRUE,
                                    !.justCalculated = FALSE]
          /\ inflight' = inflight
          /\ isCalculating' = isCalculating
          /\ (state.waitingForOperand2 /\ state.display = state.operand1)
             => state' = [state EXCEPT !.operator = state'.operator,
                                       !.expression = state.operand1 \o <<" ", SymbolHeld(state')>>]]_vars

\* 3, +, +/-, * : the second operator took the negated display
OperatorAfterNegate ==
    /\ last = "handleOperator"
    /\ state.waitingForOperand2
    /\ state.operator = "*"
    /\ state.operand1 = <<"-", "3">>
    /\ state.expression = <<"-", "3", " ", "<times>">>

\* C28: open-paren outside expression mode and outside the Error state
\* enters expression mode; fullExpression is the display followed by "*("
\* whenever the display holds a value that is not zero, and "(" only when
\* the value of the display is zero
OpenParenMultipliesDisplay ==
    [][(last' = "handleOpenParen" /\ budget' = budget - 1
        /\ ~state.isError /\ ~state.expressionMode)
       => /\ state'.expressionMode
          /\ IF IsZero(parseFloat(state.display))
             THEN state'.fullExpression \in {<<"(">>, state.display \o <<"*", "(">>}
             ELSE state'.fullExpression = state.display \o <<"*", "(">>]_vars

\* C29: in two-operand mode, outside the Error state, a result and
\* expression mode, backspace removes the last character of display, and
\* display becomes "0" when that leaves nothing or a sign alone
BackspaceCollapsesSign ==
    [][(last' = "handleBackspace" /\ budget' = budget - 1
        /\ ~state.isError /\ ~state.justCalculated /\ ~state.expressionMode)
       => state' = [state EXCEPT !.display =
                        IF DropLast(state.display) \in {<<>>, <<"-">>}
                        THEN <<"0">> ELSE DropLast(state.display)]]_vars

\* C30: +/- outside the Error state and off a display "0" toggles the
\* leading '-' of display and changes no other field, it changes nothing in
\* the Error state and on a display "0", and applied twice in any other
\* state it restores the state
NegateTwiceRestores ==
    /\ (state.isError \/ state.display = <<"0">>) => handleNegate(state) = state
    /\ (~state.isError /\ state.display # <<"0">>)
       => /\ handleNegate(state).display \in {Tail(state.display), <<"-">> \o state.display}
          /\ handleNegate(state) = [state EXCEPT !.display = handleNegate(state).display]
          /\ handleNegate(handleNegate(state)) = state

\* the display with its leading '-' toggled
Toggled(display) ==
    IF Len(display) > 0 /\ display[1] = "-" THEN Tail(display) ELSE <<"-">> \o display

\* C30 as the code has it: the same, but +/- applied twice restores the
\* state only off a display "-0", which the first one turns into "0" and
\* the second one leaves alone
NegateTwiceRestoresOffMinusZero ==
    /\ (state.isError \/ state.display = <<"0">>) => handleNegate(state) = state
    /\ (~state.isError /\ state.display # <<"0">>)
       => /\ handleNegate(state) = [state EXCEPT !.display = Toggled(state.display)]
          /\ state.display # <<"-", "0">> => handleNegate(handleNegate(state)) = state
          /\ state.display = <<"-", "0">>
             => handleNegate(handleNegate(state)) = [state EXCEPT !.display = <<"0">>]

\* 3, +/- : the display -3 that +/- left; a second +/- gives 3 and a third
\* gives this state again
NegateRoundTrip ==
    /\ last = "handleNegate"
    /\ state = [initialState EXCEPT !.display = <<"-", "3">>]
    /\ handleNegate(state).display = <<"3">>
    /\ handleNegate(handleNegate(state)) = state

(* ----------------------- formatter and tokenizer ----------------------- *)
\* the index of the decimal point of s, 0 when it has none
RECURSIVE PointAt(_, _)
PointAt(s, i) ==
    IF i > Len(s) THEN 0 ELSE IF s[i] = "." THEN i ELSE PointAt(s, i + 1)

\* a / b for a multiple a of b
WholeQuotient(a, b) ==
    IF (a < 0) # (b < 0) THEN -(Abs(a) \div Abs(b)) ELSE Abs(a) \div Abs(b)

\* C21: for the integers a and b, b not 0, formatDivisionResult(a / b) has
\* at most 10 digits after the decimal point, ends neither with a zero
\* after the point nor with the point, is the integer text of the quotient,
\* with all its zeros, when b divides a, and 10/2 is "5", 1/4 is "0.25",
\* 10/3 is "3.3333333333", 100/1 is "100"
DivisionFormatIsStripped ==
    (ret.done /\ arg.parts # <<>>)
    => /\ PointAt(ret.returned, 1) > 0
          => /\ Len(ret.returned) - PointAt(ret.returned, 1) \in 1..10
             /\ ret.returned[Len(ret.returned)] # "0"
             /\ \A i \in 1..Len(ret.returned) :
                   i # PointAt(ret.returned, 1) /\ ~(i = 1 /\ ret.returned[1] = "-")
                   => ret.returned[i] \in DigitChars
       /\ Abs(arg.parts[1]) % Abs(arg.parts[2]) = 0
          => ret.returned = IntToStr(WholeQuotient(arg.parts[1], arg.parts[2]))
       /\ arg.parts = <<10, 2>> => ret.returned = <<"5">>
       /\ arg.parts = <<1, 4>> => ret.returned = <<"0", ".", "2", "5">>
       /\ arg.parts = <<10, 3>>
          => ret.returned = <<"3", ".", "3", "3", "3", "3", "3", "3", "3", "3", "3", "3">>
       /\ arg.parts = <<100, 1>> => ret.returned = <<"1", "0", "0">>

\* 100 / 8 formatted as 12.5
HundredOverEight ==
    /\ ret.done
    /\ arg.parts = <<100, 8>>
    /\ ret.returned = <<"1", "2", ".", "5">>

\* the characters tokenize makes tokens of
Known(c) == c = SqrtSign \/ c \in OperatorChars \/ c \in DigitChars \cup {"."}

\* the text s without the characters tokenize drops
RECURSIVE Kept(_)
Kept(s) ==
    IF s = <<>> THEN <<>>
    ELSE IF Known(s[1]) THEN <<s[1]>> \o Kept(Tail(s)) ELSE Kept(Tail(s))

\* the tokens one after another
RECURSIVE Joined(_)
Joined(tokens) == IF tokens = <<>> THEN <<>> ELSE tokens[1] \o Joined(Tail(tokens))

\* the places of s where a token starts: a character that stands alone, or
\* the first character of a run of digits and points
TokenStarts(s) ==
    {i \in 1..Len(s) :
        \/ s[i] = SqrtSign \/ s[i] \in OperatorChars
        \/ /\ s[i] \in DigitChars \cup {"."}
           /\ (i = 1 \/ s[i - 1] \notin DigitChars \cup {"."})}

\* C22: tokenize returns, for every text, the tokens in the order of the
\* text: one for each of ( ) ^ % * / + - and the root sign, one for each
\* maximal run of digits and points, however many points, and none for any
\* other character, so that the tokens joined are the text without the
\* characters dropped
TokensCoverText ==
    (ret.done /\ arg.parts = <<>>)
    => /\ Joined(ret.tokens) = Kept(arg.text)
       /\ Len(ret.tokens) = Cardinality(TokenStarts(arg.text))
       /\ \A k \in 1..Len(ret.tokens) :
             \/ Len(ret.tokens[k]) = 1
                /\ (ret.tokens[k][1] = SqrtSign \/ ret.tokens[k][1] \in OperatorChars)
             \/ /\ Len(ret.tokens[k]) >= 1
                /\ \A i \in 1..Len(ret.tokens[k]) : ret.tokens[k][i] \in DigitChars \cup {"."}

\* "1.1." is one token, and "1a1" two
TwoPointsOneToken ==
    /\ ret.done
    /\ arg.text = <<"1", ".", "1", ".">>
    /\ ret.tokens = << <<"1", ".", "1", ".">> >>


\* the entry of a successful operation o of the actor, without its timestamp
Recorded(o) ==
    <<IntToStr(o.x) \o <<" ", o.op, " ">> \o IntToStr(o.y),
      IntToStr(CASE o.op = "+" -> o.x + o.y
                 [] o.op = "-" -> o.x - o.y
                 [] o.op = "*" -> o.x * o.y
                 [] OTHER -> TruncDiv(o.x, o.y))>>

(* C23: calculationHistory never holds more than 10 entries, and holds the
   up-to-10 most recent of the operations that succeeded since the last
   clearHistory, newest first. *)
HistoryHoldsTenNewest ==
    /\ Len(calculationHistory) <= 10
    /\ Len(calculationHistory) = (IF Len(arg.parts) > 10 THEN 10 ELSE Len(arg.parts))
    /\ \A i \in 1..Len(calculationHistory) :
          <<calculationHistory[i].expression, calculationHistory[i].result>> = Recorded(arg.parts[i])
    /\ \A i \in 1..(Len(calculationHistory) - 1) :
          calculationHistory[i].timestamp >= calculationHistory[i + 1].timestamp

\* thirteen operations since the actor started: the three new ones are kept
\* in front of the seven newest of the old ones
ThirteenOperationsTenKept ==
    /\ Len(arg.parts) = 13
    /\ Len(calculationHistory) = 10
    /\ calculationHistory[10].expression = <<"7", " ", "+", " ", "2">>
    /\ calculationHistory[1].timestamp > calculationHistory[10].timestamp

(* C24: a divide with y = 0 fails and leaves calculationHistory as it was:
   the actor traps before it appends, and the mutation of useDivide rejects
   without calling the actor. *)
DivideByZeroLeavesHistory ==
    [][/\ (budget' < budget /\ last' = "actor" /\ ret'.op = "/" /\ ret'.y = 0)
            => (ret'.trapped /\ calculationHistory' = calculationHistory)
       /\ (budget' < budget /\ last' = "useDivide" /\ ret'.y = 0)
            => (/\ ret'.answer.status = "rejected"
                /\ ~ret'.contacted
                /\ calculationHistory' = calculationHistory)]_vars

\* divide(2, 0) trapped on an actor that holds ten entries
DivideTrappedOnFullHistory ==
    /\ last = "actor"
    /\ ret.op = "/" /\ ret.y = 0 /\ ret.trapped
    /\ Len(calculationHistory) = 10
    /\ budget = MaxServiceCalls - 1

\* what getHistory is to return from history at Time.now() = time: the
\* entries no older than seven days, in their stored order
IsRecentOf(reply, history, time) ==
    /\ Len(reply) = Cardinality({i \in 1..Len(history) : time - history[i].timestamp <= SevenDays})
    /\ \A i \in 1..Len(history) :
          time - history[i].timestamp <= SevenDays
              => reply[Cardinality({j \in 1..i : time - history[j].timestamp <= SevenDays})]
                     = <<history[i].expression, history[i].result>>

(* C25: getHistory returns, in the stored newest-first order, exactly the
   stored entries whose timestamp is within the last 7 days, and leaves
   calculationHistory as it was; right after clearHistory it returns the
   empty sequence. *)
GetHistoryReturnsRecent ==
    [][(budget' < budget /\ last' = "getHistory")
          => (/\ IsRecentOf(ret'.history, calculationHistory, now)
              /\ calculationHistory' = calculationHistory
              /\ (last = "clearHistory" => ret'.history = <<>>))]_vars

\* getHistory returned some of the stored entries and left the older ones out
OlderEntriesLeftOut ==
    /\ last = "getHistory"
    /\ Len(ret.history) > 0
    /\ Len(ret.history) < Len(calculationHistory)
    /\ ret.history[1] = <<calculationHistory[1].expression, calculationHistory[1].result>>

\* t begins with s
IsPrefix(s, t) == Len(s) <= Len(t) /\ SubSeq(t, 1, Len(s)) = s

\* the handlers of the entry inputs of expression mode
EntryHandlers ==
    {"handleDigit", "handleDecimal", "handleOperator", "handleOpenParen",
     "handleCloseParen", "handlePercent", "handlePower"}

(* C31: while expressionMode is true, outside Error and JustCalculated, every
   entry input (digit, decimal point, operator, open and close paren, percent,
   power) extends fullExpression and leaves operand1 and operator unchanged;
   a decimal point the number already has may leave the state as it is. *)
ExpressionInputsExtend ==
    [][(/\ state.expressionMode /\ ~state.isError /\ ~state.justCalculated
        /\ budget' < budget
        /\ last' \in EntryHandlers)
          => \/ /\ IsPrefix(state.fullExpression, state'.fullExpression)
                /\ Len(state'.fullExpression) > Len(state.fullExpression)
                /\ state'.operand1 = state.operand1
                /\ state'.operator = state.operator
             \/ last' = "handleDecimal" /\ state' = state]_vars

(* C32: in every reachable state, expressionMode true implies that no
   two-operand operation is pending: operator is none and waitingForOperand2
   is false. *)
FlowsAreExclusive ==
    state.expressionMode
        => (state.operator = NoOperator /\ ~state.waitingForOperand2)

(* C36: in every reachable state, expressionMode true implies fullExpression
   is non-empty, so outside the Error state equals takes the expression
   branch in expression mode. *)
ExpressionModeHasText ==
    state.expressionMode
        => /\ state.fullExpression # <<>>
           /\ ~state.isError => EqualsBranch(state, NaN, NaN) = "expression"

\* backspace left one character of the expression, still in expression mode
BackspaceToOneCharacter ==
    /\ last = "handleBackspace"
    /\ state.expressionMode
    /\ Len(state.fullExpression) = 1

(* C37: in every reachable state, justCalculated true implies operator is
   none, expressionMode is false, waitingForOperand2 is false and
   fullExpression is empty. *)
ResultStateIsBare ==
    state.justCalculated
        => /\ state.operator = NoOperator
           /\ ~state.expressionMode
           /\ ~state.waitingForOperand2
           /\ state.fullExpression = <<>>

\* an expression evaluated by equals: the result is shown and the expression
\* is gone
ExpressionResultShown ==
    /\ last = "handleEquals"
    /\ state.justCalculated
    /\ state.operand1 = state.display
    /\ budget = MaxKeys - 4

(* C38: in every reachable state display is a non-empty string. *)
DisplayNeverEmpty ==
    state.display # <<>>

(* C40: an operator pressed after operand2 was typed (an operator pending,
   waitingForOperand2 false) computes nothing and calls nothing: operand1
   becomes the display, the operator the one pressed, and the display, the
   calls in flight and the history of the actor stay as they are. *)
OperatorAfterOperandOverwrites ==
    [][(/\ budget' < budget /\ last' = "handleOperator"
        /\ ~state.isError
        /\ state.operator # NoOperator /\ ~state.waitingForOperand2)
          => /\ state'.operand1 = state.display
             /\ state'.display = state.display
             /\ state'.operator \in Operators
             /\ state'.expression = state.display \o <<" ", opSymbol(state'.operator)>>
             /\ state'.waitingForOperand2
             /\ ~state'.justCalculated /\ ~state'.isError
             /\ inflight' = inflight
             /\ isCalculating' = isCalculating
             /\ calculationHistory' = calculationHistory]_vars

\* 1, +, 3, then x: the 1 and the addition are gone
SecondOperandBecomesFirst ==
    /\ last = "handleOperator"
    /\ state.operand1 = <<"3">>
    /\ state.operator = "*"
    /\ state.expression = <<"3", " ", "<times>">>
    /\ budget = MaxKeys - 4

\* equals pressed on s, the actor answering as remote says, commits result
Commits(s, result, remote) ==
    \/ /\ EqualsPath(s) = "expression"
       /\ EqualsEvaluated(s, safeEvaluate(s.fullExpression)).display = result
       /\ EqualsEvaluated(s, safeEvaluate(s.fullExpression)).justCalculated
    \/ /\ EqualsPath(s) = "call"
       /\ Settled(s, Call(s), Mutation(Call(s), remote)).display = result
       /\ Settled(s, Call(s), Mutation(Call(s), remote)).justCalculated

\* the preview p is there and neither "Error" nor a text outside the model
IsValue(p) == p.k = "str" /\ p.s \notin {ErrorStr, UnmodelledStr}

(* C33: the preview is absent whenever isError or justCalculated is true,
   and in every reachable state where the preview is a value other than
   "Error", equals commits a display equal to the preview, in two-operand
   and in expression mode, whatever the actor does with the call. *)
PreviewIsWhatEqualsYields ==
    /\ (state.isError \/ state.justCalculated) => autoResult(state) = Null
    /\ IsValue(autoResult(state))
          => \A remote \in RemoteStates : Commits(state, autoResult(state).s, remote)

\* 1.3 + 1 previews 2, the sum of the truncated operands
TruncatedSumPreviewed ==
    /\ state.operand1 = <<"1", ".", "3">>
    /\ state.operator = "+"
    /\ state.display = <<"1">>
    /\ autoResult(state) = Str(<<"2">>)
    /\ Commits(state, <<"2">>, "ok")

(* C34: an equals press never ends with an uncaught exception: it leaves the
   state unchanged, enters JustCalculated or enters Error, whatever text
   operand1 and display hold. *)
EqualsNeverThrows ==
    [][(budget' < budget
        /\ last' \in {"handleEquals", "handleEquals:await", "handleEquals:RangeError"})
          => /\ last' # "handleEquals:RangeError"
             /\ (state' = state \/ state'.justCalculated \/ state'.isError)]_vars

(* C39: every equals press that starts a call finishes once the call
   resolves or rejects: the calls in flight settle, isCalculating returns to
   false, and the step in which a call settles leaves isCalculating false
   and the state in JustCalculated or in Error. *)
EqualsCallFinishes ==
    /\ (inflight # <<>>) ~> (inflight = <<>>)
    /\ isCalculating ~> ~isCalculating
    /\ [][Len(inflight') < Len(inflight)
            => (~isCalculating' /\ (state'.justCalculated \/ state'.isError))]_vars

\* two calls started by Enter pressed twice: the actor answered the first,
\* the second fell back, and both have set their result
BothCallsSettled ==
    /\ last = "handleEquals:settled:fail"
    /\ Len(calculationHistory) = 1
    /\ inflight = <<>>
    /\ ~isCalculating
    /\ state.justCalculated

\* the key useDivide saves for the division of x by y
DivisionKey(x, y) ==
    IntToStr(x) \o <<" ", "/", " ">> \o IntToStr(y) \o <<"=">> \o IntToStr(TruncDiv(x, y))

\* the step is a write of the timestamp cache by the mutation of useDivide
IsCacheWrite ==
    budget' < budget /\ last' = "useDivide" /\ ret'.saved

(* C35: a write of a key that is already in the timestamp cache keeps its
   earlier timestamp, and after every write no entry of the cache is more
   than 7 days old. *)
WriteKeepsEarlierTimestamp ==
    [][IsCacheWrite
          => /\ DivisionKey(ret'.x, ret'.y) \in DOMAIN localTimestamps
                  => /\ DivisionKey(ret'.x, ret'.y) \in DOMAIN localTimestamps'
                     /\ localTimestamps'[DivisionKey(ret'.x, ret'.y)]
                            = localTimestamps[DivisionKey(ret'.x, ret'.y)]
             /\ \A k \in DOMAIN localTimestamps' : now - localTimestamps'[k] <= sevenDaysMs]_vars

(* C35, amended: a write of a key that is already in the cache with a
   timestamp no older than 7 days keeps that timestamp; a key whose timestamp
   is older is removed by the write and not stamped anew; a key that is not
   in the cache is stamped with the time of the write; the other entries stay
   as they are if they are no older than 7 days and are removed otherwise. *)
WriteKeepsRecentTimestamp ==
    [][IsCacheWrite
          => /\ DOMAIN localTimestamps'
                    = {k \in DOMAIN localTimestamps : now - localTimestamps[k] <= sevenDaysMs}
                      \cup (IF DivisionKey(ret'.x, ret'.y) \in DOMAIN localTimestamps
                            THEN {} ELSE {DivisionKey(ret'.x, ret'.y)})
             /\ \A k \in DOMAIN localTimestamps' :
                   localTimestamps'[k] = (IF k \in DOMAIN localTimestamps
                                          THEN localTimestamps[k] ELSE now)]_vars

\* 2 / 2 saved a second time a day later keeps the timestamp of the first
\* write, next to a newer entry
DuplicateKeptEarlier ==
    /\ last = "useDivide" /\ ret.saved /\ ret.x = 2 /\ ret.y = 2
    /\ DOMAIN localTimestamps = {DivisionKey(2, 2), DivisionKey(-3, 2)}
    /\ localTimestamps[DivisionKey(2, 2)] = 1
    /\ localTimestamps[DivisionKey(-3, 2)] = 2
    /\ now = 2
====
